---- MODULE Spec2Model ----
(***************************************************************************)
(* Model of the generation request layer of Comfyui_o1key (src/utils.py)   *)
(* and of the two orchestration loops built on it: the concurrent fan-out  *)
(* of generate_image (src/nodes/text_to_image.py, image_to_image.py) and   *)
(* the sequential loop of process_batch (src/nodes/batch_processor.py).    *)
(*                                                                         *)
(* Python strings are sequences of one-character strings.  A character     *)
(* outside ASCII is written as one token (its pinyin), and a fixed message *)
(* text of the source is named by a template tag next to the line that     *)
(* raises it.                                                              *)
(***************************************************************************)
EXTENDS Integers, Sequences, FiniteSets, TLC

VARIABLES
    req,        \* the arguments of the current call_nano_banana_api call
    pc,         \* position of the call pipeline
    route,      \* what the routing and request construction decided
    posts,      \* the generation POSTs issued so far, in order
    resp,       \* the transport outcome of the last POST
    data,       \* the decoded JSON body handed to the extraction
    downloads,  \* the download_image_from_url calls made, in order
    gets,       \* the outcomes of the GET attempts of the current download
    sleeps,     \* number of time.sleep(2) calls of the current download
    last_error, \* download_image_from_url's last_error
    decodes,    \* number of decode_base64_image calls
    result      \* what the pipeline returned or raised

callVars == <<req, pc, route, posts, resp, data, downloads, gets, sleeps,
              last_error, decodes, result>>

VARIABLES
    node,              \* which node's generate_image runs
    api_config,        \* the api_config input of the node
    batch_size,        \* the batch size input
    fan_pc,            \* position of generate_image
    workers,           \* the futures: state, calls made and returned tuple
    completion_order,  \* the order in which as_completed yielded the futures
    all_images,        \* generate_image's all_images
    errors,            \* generate_image's errors
    fan_success_count, \* generate_image's success_count
    fan_failed_count,  \* generate_image's failed_count
    fan_output         \* what generate_image returned or raised

fanVars == <<node, api_config, batch_size, fan_pc, workers, completion_order,
             all_images, errors, fan_success_count, fan_failed_count, fan_output>>

VARIABLES
    batch_prompt,         \* process_batch's prompt text
    folder,               \* what is at folder_path
    output_folder,        \* the output folder input
    max_dim,              \* the maximum dimension input
    num_fixed_refs,       \* how many reference inputs are connected
    batch_pc,             \* position of process_batch
    folder_loaded,        \* whether load_images_from_folder has run
    prompts,              \* process_batch's prompts
    total_images,         \* process_batch's total_images
    prompt_idx,           \* outer loop index
    img_idx,              \* inner loop index
    processed_count,      \* process_batch's processed_count
    success_count,        \* process_batch's success_count
    failed_count,         \* process_batch's failed_count
    all_processed_images, \* process_batch's all_processed_images
    saved,                \* the files written to the output folder
    api_calls,            \* the calls of call_nano_banana_api made so far
    log,                  \* the success and failure lines printed per item
    batch_output          \* what process_batch returned or raised

batchVars == <<batch_prompt, folder, output_folder, max_dim, num_fixed_refs, batch_pc,
               folder_loaded, prompts, total_images, prompt_idx, img_idx,
               processed_count, success_count, failed_count, all_processed_images,
               saved, api_calls, log, batch_output>>

VARIABLES
    fn,        \* the utility function applied on its own: its name
    fn_args,   \* its arguments
    returned,  \* whether it has run
    fn_ret     \* what it returned or raised

fnVars == <<fn, fn_args, returned, fn_ret>>

vars == <<callVars, fanVars, batchVars, fnVars>>

-----------------------------------------------------------------------------
(* Strings *)

\* Python None where a str is expected
NoneStr == <<"None">>

\* Python None where an opaque value (URL, key) is expected
NoneVal == "None"

\* truth value of a str-or-None
Truthy(s) == s # <<>> /\ s # NoneStr

\* truth value of an opaque value-or-None
TruthyVal(v) == v # "" /\ v # NoneVal

\* str.lower() on the characters the identifiers use
LowerChar(c) ==
    CASE c = "G" -> "g" [] c = "E" -> "e" [] c = "M" -> "m"
      [] c = "I" -> "i" [] c = "N" -> "n" [] c = "K" -> "k"
      [] c = "U" -> "u" [] c = "R" -> "r" [] c = "L" -> "l"
      [] OTHER -> c

Lower(s) == [i \in 1..Len(s) |-> LowerChar(s[i])]

\* s.startswith(p)
StartsWith(s, p) == Len(p) <= Len(s) /\ SubSeq(s, 1, Len(p)) = p

\* s.endswith(p)
EndsWith(s, p) == Len(p) <= Len(s) /\ SubSeq(s, Len(s) - Len(p) + 1, Len(s)) = p

\* p in s
Contains(s, p) ==
    \E i \in 1..(Len(s) - Len(p) + 1) : SubSeq(s, i, i + Len(p) - 1) = p

IsSpace(c) == c \in {" ", "\n", "\t"}

RECURSIVE LStrip(_)
LStrip(s) == IF s # <<>> /\ IsSpace(Head(s)) THEN LStrip(Tail(s)) ELSE s

RECURSIVE RStrip(_)
RStrip(s) ==
    IF s # <<>> /\ IsSpace(s[Len(s)]) THEN RStrip(SubSeq(s, 1, Len(s) - 1)) ELSE s

\* s.strip()
Strip(s) == RStrip(LStrip(s))

\* s[:n]
Prefix(s, n) == IF Len(s) > n THEN SubSeq(s, 1, n) ELSE s

DIGITS == <<"0","1","2","3","4","5","6","7","8","9">>

IsDigit(c) == \E i \in 1..Len(DIGITS) : DIGITS[i] = c

\* str(n) of a natural number, as an f-string renders it
RECURSIVE IntStr(_)
IntStr(n) ==
    IF n < 10 THEN <<DIGITS[n + 1]>> ELSE IntStr(n \div 10) \o <<DIGITS[(n % 10) + 1]>>

-----------------------------------------------------------------------------
(* Module constants of utils.py *)

API_BASE_URL == "https://api.o1key.com"

PROXY_URL == NoneStr

S_gemini == <<"g","e","m","i","n","i">>

S_url == <<"-","u","r","l">>

S_base_model ==
    <<"g","e","m","i","n","i","-","3","-","p","r","o","-","i","m","a","g","e",
      "-","p","r","e","v","i","e","w">>

S_1K == <<"1","K">>

S_2K == <<"2","K">>

S_4K == <<"4","K">>

S_2k == <<"2","k">>

CURRENT_MODEL == S_base_model \o S_url

GEMINI_URL_MODELS == {CURRENT_MODEL}

GEMINI_B64_MODELS == {}

MODEL_NAME_MAPPING == [m \in {CURRENT_MODEL} |-> CURRENT_MODEL]

get_official_model_name(display_name) ==
    IF display_name \in DOMAIN MODEL_NAME_MAPPING
    THEN MODEL_NAME_MAPPING[display_name]
    ELSE display_name

S_1024x1024 == <<"1","0","2","4","x","1","0","2","4">>

ASPECT_RATIO_TO_1K_SIZE_without_21_9 ==
    [a \in {"1:1", "2:3", "3:2", "3:4", "4:3", "4:5", "5:4", "9:16", "16:9"} |->
       CASE a = "1:1"  -> <<"1","0","2","4","x","1","0","2","4">>
         [] a = "2:3"  -> <<"8","4","8","x","1","2","6","4">>
         [] a = "3:2"  -> <<"1","2","6","4","x","8","4","8">>
         [] a = "3:4"  -> <<"8","9","6","x","1","2","0","0">>
         [] a = "4:3"  -> <<"1","2","0","0","x","8","9","6">>
         [] a = "4:5"  -> <<"9","2","8","x","1","1","5","2">>
         [] a = "5:4"  -> <<"1","1","5","2","x","9","2","8">>
         [] a = "9:16" -> <<"7","6","8","x","1","3","7","6">>
         [] a = "16:9" -> <<"1","3","7","6","x","7","6","8">>]

ASPECT_RATIO_TO_1K_SIZE ==
    [a \in {"1:1", "2:3", "3:2", "3:4", "4:3", "4:5", "5:4", "9:16", "16:9", "21:9"} |->
       CASE a = "1:1"  -> <<"1","0","2","4","x","1","0","2","4">>
         [] a = "2:3"  -> <<"8","4","8","x","1","2","6","4">>
         [] a = "3:2"  -> <<"1","2","6","4","x","8","4","8">>
         [] a = "3:4"  -> <<"8","9","6","x","1","2","0","0">>
         [] a = "4:3"  -> <<"1","2","0","0","x","8","9","6">>
         [] a = "4:5"  -> <<"9","2","8","x","1","1","5","2">>
         [] a = "5:4"  -> <<"1","1","5","2","x","9","2","8">>
         [] a = "9:16" -> <<"7","6","8","x","1","3","7","6">>
         [] a = "16:9" -> <<"1","3","7","6","x","7","6","8">>
         [] a = "21:9" -> <<"1","5","8","4","x","6","7","2">>]

-----------------------------------------------------------------------------
(* Protocol selection and request construction *)

is_openai_format_model_by_route(model, network_url) ==
    IF TruthyVal(network_url) THEN TRUE ELSE ~ Contains(Lower(model), S_gemini)

\* TRUE when the OpenAI images protocol is used, FALSE for the native one
is_openai_format_model(model, network_url) ==
    ~ Contains(Lower(model), S_gemini)

\* (actual model name, the "WxH" string)
get_openai_model_and_size(model, aspect_ratio, image_size) ==
    LET size == IF aspect_ratio \in DOMAIN ASPECT_RATIO_TO_1K_SIZE
                THEN ASPECT_RATIO_TO_1K_SIZE[aspect_ratio]
                ELSE S_1024x1024
        actual_model ==
            IF image_size = S_1K \/ image_size = NoneStr
            THEN S_base_model \o S_url
            ELSE S_base_model \o <<"-">> \o Lower(image_size) \o S_url
    IN  <<actual_model, size>>

\* proxy.strip() if proxy else None, then "or PROXY_URL"
active_proxy(proxy) ==
    LET user_proxy == IF Truthy(proxy) THEN Strip(proxy) ELSE NoneStr
    IN  IF Truthy(user_proxy) THEN user_proxy ELSE PROXY_URL

\* (connect timeout, read timeout) of the generation POST
post_timeout(proxy) ==
    IF Truthy(active_proxy(proxy)) THEN <<120, 600>> ELSE <<60, 600>>

\* One generation POST as the request layer builds it.  Fields a protocol
\* does not use are empty.
PostRequest(variant, api, body, base, model, size, prompt, files, parts, config, role, key, proxy) ==
    [variant |-> variant, api |-> api, body |-> body, base |-> base, model |-> model,
     size |-> size, prompt |-> prompt, files |-> files, parts |-> parts,
     config |-> config, role |-> role, bearer |-> key,
     proxy |-> active_proxy(proxy), timeout |-> post_timeout(proxy)]

NoConfig == [aspectRatio |-> "", imageSize |-> <<>>, responseModalities |-> <<>>]

S_image_ == <<"i","m","a","g","e","_">>

S_png == <<".","p","n","g">>

\* the edit request carrying the first reference image only
call_openai_format_api_first_image_only(prompt, model, size, api_key, reference_images_base64, network_url, proxy) ==
    LET base_url == IF TruthyVal(network_url) THEN network_url ELSE API_BASE_URL
    IN  IF reference_images_base64 # NoneStr /\ Len(reference_images_base64) > 0
        THEN PostRequest("openai", "/v1/images/edits", "multipart", base_url, model, size, prompt,
                 [idx \in 1..1 |->
                      [field |-> "image",
                       name |-> S_image_ \o IntStr(idx - 1) \o S_png,
                       mime |-> "image/png",
                       data |-> reference_images_base64[idx]]],
                 <<>>, NoConfig, "", api_key, proxy)
        ELSE PostRequest("openai", "/v1/images/generations", "json", base_url, model, size, prompt,
                 <<>>, <<>>, NoConfig, "", api_key, proxy)

\* call_openai_format_api with _call_openai_image_generation / _call_openai_image_edit
\* up to the POST: endpoint choice and body
call_openai_format_api(prompt, model, size, api_key, reference_images_base64, network_url, proxy) ==
    LET base_url == IF TruthyVal(network_url) THEN network_url ELSE API_BASE_URL
    IN  IF reference_images_base64 # NoneStr /\ Len(reference_images_base64) > 0
        THEN PostRequest("openai", "/v1/images/edits", "multipart", base_url, model, size, prompt,
                 [idx \in 1..Len(reference_images_base64) |->
                      [field |-> "image",
                       name |-> S_image_ \o IntStr(idx - 1) \o S_png,
                       mime |-> "image/png",
                       data |-> reference_images_base64[idx]]],
                 <<>>, NoConfig, "", api_key, proxy)
        ELSE PostRequest("openai", "/v1/images/generations", "json", base_url, model, size, prompt,
                 <<>>, <<>>, NoConfig, "", api_key, proxy)

\* the model name of the native endpoint
native_official_model(model, image_size) ==
    LET is_gemini_url_model == model \in GEMINI_URL_MODELS
        official_model == get_official_model_name(model)
    IN  IF EndsWith(official_model, S_url) /\ Truthy(image_size) /\ ~ is_gemini_url_model
           /\ image_size \in {S_2K, S_4K}
        THEN SubSeq(official_model, 1, Len(official_model) - 4)
                 \o <<"-">> \o Lower(image_size) \o S_url
        ELSE official_model

\* str.upper() of a resolution tag
UpperTag(s) ==
    [i \in 1..Len(s) |-> IF s[i] = "k" THEN "K" ELSE s[i]]

\* the native request with the prompt after the reference images
native_request_references_first(r) ==
    LET is_gemini_url_model == r.model \in GEMINI_URL_MODELS
        active_base_url == IF TruthyVal(r.network_url) THEN r.network_url ELSE API_BASE_URL
        refparts == IF Truthy(r.reference_images_base64)
                    THEN [i \in 1..Len(r.reference_images_base64) |->
                            [kind |-> "inline_data", mime_type |-> "image/png",
                             data |-> r.reference_images_base64[i]]]
                    ELSE <<>>
        parts == refparts \o <<[kind |-> "text", mime_type |-> "", data |-> r.prompt]>>
        config == [aspectRatio |-> r.aspect_ratio,
                   imageSize |-> IF Truthy(r.image_size) THEN UpperTag(r.image_size) ELSE <<>>,
                   responseModalities |-> IF is_gemini_url_model THEN <<"IMAGE">> ELSE <<>>]
    IN  PostRequest("native", "/v1beta/models/{model}:generateContent", "json", active_base_url,
            native_official_model(r.model, r.image_size), <<>>, r.prompt, <<>>, parts,
            config, IF is_gemini_url_model THEN "user" ELSE "", r.api_key, r.proxy)

\* the native request of call_nano_banana_api up to the POST
native_request(r) ==
    LET is_gemini_url_model == r.model \in GEMINI_URL_MODELS
        active_base_url == IF TruthyVal(r.network_url) THEN r.network_url ELSE API_BASE_URL
        refparts == IF Truthy(r.reference_images_base64)
                    THEN [i \in 1..Len(r.reference_images_base64) |->
                            [kind |-> "inline_data", mime_type |-> "image/png",
                             data |-> r.reference_images_base64[i]]]
                    ELSE <<>>
        parts == <<[kind |-> "text", mime_type |-> "", data |-> r.prompt]>> \o refparts
        config == [aspectRatio |-> r.aspect_ratio,
                   imageSize |-> IF Truthy(r.image_size) THEN UpperTag(r.image_size) ELSE <<>>,
                   responseModalities |-> IF is_gemini_url_model THEN <<"IMAGE">> ELSE <<>>]
    IN  PostRequest("native", "/v1beta/models/{model}:generateContent", "json", active_base_url,
            native_official_model(r.model, r.image_size), <<>>, r.prompt, <<>>, parts,
            config, IF is_gemini_url_model THEN "user" ELSE "", r.api_key, r.proxy)

\* the routing of call_nano_banana_api: the POST it is going to issue
build_request(r) ==
    IF is_openai_format_model(r.model, r.network_url)
    THEN LET ms == get_openai_model_and_size(r.model, r.aspect_ratio,
                        IF Truthy(r.image_size) THEN r.image_size ELSE S_1K)
         IN  call_openai_format_api(r.prompt, ms[1], ms[2], r.api_key,
                                    r.reference_images_base64, r.network_url, r.proxy)
    ELSE native_request(r)

-----------------------------------------------------------------------------
(* Error messages of the request layer *)

\* An exception: its Python class, the branch that raised it (kind), the
\* fixed text (tmpl), and the variable pieces the text embeds: the form of
\* parse_api_error's message, a status code and a piece of the body.
Msg(exc, kind, tmpl, friendly, status, detail) ==
    [exc |-> exc, kind |-> kind, tmpl |-> tmpl, friendly |-> friendly,
     status |-> status, detail |-> detail]

NoMsg == Msg("", "", "", "", 0, <<>>)

S_DOCTYPE == <<"<","!","D","O","C","T","Y","P","E">>

S_html == <<"<","h","t","m","l">>

S_model_not_found == <<"m","o","d","e","l","_","n","o","t","_","f","o","u","n","d">>

\* the five characters of the "no channel available" marker
S_no_channel == <<"wu","ke","yong","qu","dao">>

\* keys of parse_api_error's error_messages
GATEWAY_CODES == {500, 502, 503, 504, 520, 521, 522, 523, 524}

\* the message of parse_api_error: which of its four texts, the status code
\* when the text shows it, and the part of the body the text shows
parse_api_error(status_code, error_text) ==
    LET is_html == StartsWith(Strip(error_text), S_DOCTYPE)
                   \/ StartsWith(Strip(error_text), S_html)
    IN  IF status_code \in GATEWAY_CODES
        THEN IF is_html
             THEN [form |-> "GATEWAY_HTML", code |-> status_code, base |-> status_code,
                   detail |-> <<>>]
             ELSE [form |-> "GATEWAY_DETAIL", code |-> 0, base |-> status_code,
                   detail |-> Prefix(error_text, 100)]
        ELSE IF is_html
             THEN [form |-> "OTHER_HTML", code |-> status_code, base |-> 0,
                   detail |-> <<>>]
             ELSE [form |-> "OTHER_DETAIL", code |-> status_code, base |-> 0,
                   detail |-> Prefix(error_text, 200)]

has_model_marker(error_text) ==
    Contains(error_text, S_model_not_found) \/ Contains(error_text, S_no_channel)

\* the native branch testing the status before the marker
native_error_status_first(status_code, error_text) ==
    IF status_code = 401
    THEN Msg("Exception", "Auth", "NATIVE_401", "", 0, <<>>)
    ELSE IF status_code = 429
    THEN Msg("Exception", "RateLimited", "TOO_FREQUENT", "", 0, <<>>)
    ELSE IF status_code = 504
    THEN Msg("Exception", "GatewayTimeout", "NATIVE_504", "", 0, <<>>)
    ELSE IF has_model_marker(error_text)
    THEN Msg("Exception", "ModelUnavailable", "MODEL_UNAVAILABLE", "", 0, <<>>)
    ELSE Msg("Exception", "GatewayError", "NATIVE_SERVER_ERROR", "", 0, <<>>)

\* call_nano_banana_api, non-200 branch of the native path
native_error(status_code, error_text) ==
    IF has_model_marker(error_text)
    THEN Msg("Exception", "ModelUnavailable", "MODEL_UNAVAILABLE", "", 0, <<>>)
    ELSE IF status_code = 401
    THEN Msg("Exception", "Auth", "NATIVE_401", "", 0, <<>>)
    ELSE IF status_code = 429
    THEN Msg("Exception", "RateLimited", "TOO_FREQUENT", "", 0, <<>>)
    ELSE IF status_code = 504
    THEN Msg("Exception", "GatewayTimeout", "NATIVE_504", "", 0, <<>>)
    ELSE Msg("Exception", "GatewayError", "NATIVE_SERVER_ERROR", "", 0, <<>>)

generation_error_no_429(status_code, error_text) ==
    LET friendly_error == parse_api_error(status_code, error_text)
    IN  IF has_model_marker(error_text)
        THEN Msg("Exception", "ModelUnavailable", "MODEL_UNAVAILABLE", "", 0, <<>>)
        ELSE IF status_code = 401
        THEN Msg("Exception", "Auth", "OPENAI_401", "", 0, <<>>)
        ELSE IF status_code = 504
        THEN Msg("Exception", "GatewayTimeout", "OPENAI_504", friendly_error.form,
                 friendly_error.code, friendly_error.detail)
        ELSE Msg("Exception", "GatewayError", "OPENAI_SERVER_ERROR", friendly_error.form,
                 friendly_error.code, friendly_error.detail)

\* _call_openai_image_generation, non-200 branch
generation_error(status_code, error_text) ==
    LET friendly_error == parse_api_error(status_code, error_text)
    IN  IF has_model_marker(error_text)
        THEN Msg("Exception", "ModelUnavailable", "MODEL_UNAVAILABLE", "", 0, <<>>)
        ELSE IF status_code = 401
        THEN Msg("Exception", "Auth", "OPENAI_401", "", 0, <<>>)
        ELSE IF status_code = 429
        THEN Msg("Exception", "RateLimited", "TOO_FREQUENT", "", 0, <<>>)
        ELSE IF status_code = 504
        THEN Msg("Exception", "GatewayTimeout", "OPENAI_504", friendly_error.form,
                 friendly_error.code, friendly_error.detail)
        ELSE Msg("Exception", "GatewayError", "OPENAI_SERVER_ERROR", friendly_error.form,
                 friendly_error.code, friendly_error.detail)

\* _call_openai_image_edit, non-200 branch
edit_error(status_code, error_text) ==
    LET friendly_error == parse_api_error(status_code, error_text)
    IN  IF has_model_marker(error_text)
        THEN Msg("Exception", "ModelUnavailable", "MODEL_UNAVAILABLE", "", 0, <<>>)
        ELSE IF status_code = 401
        THEN Msg("Exception", "Auth", "OPENAI_401", "", 0, <<>>)
        ELSE IF status_code = 429
        THEN Msg("Exception", "RateLimited", "TOO_FREQUENT", "", 0, <<>>)
        ELSE IF status_code = 504
        THEN Msg("Exception", "GatewayTimeout", "OPENAI_504", friendly_error.form,
                 friendly_error.code, friendly_error.detail)
        ELSE Msg("Exception", "GatewayError", "OPENAI_SERVER_ERROR", friendly_error.form,
                 friendly_error.code, friendly_error.detail)

-----------------------------------------------------------------------------
(* What the request layer does with the outcome of its POST *)

NoJson ==
    [data |-> "missing", b64_json |-> "absent", url |-> "",
     candidates |-> "missing", finishReason |-> "absent", content |-> "missing",
     parts |-> <<>>]

NoResult == [status |-> "none", src |-> "", url |-> "", msg |-> NoMsg]

Raised(m) == [status |-> "error", src |-> "", url |-> "", msg |-> m]

Image(src, url) == [status |-> "image", src |-> src, url |-> url, msg |-> NoMsg]

\* where the pipeline goes after the POST: it ends with an exception, or the
\* decoded JSON body goes to the extraction
Ends(m) == [pc |-> "done", result |-> Raised(m), data |-> NoJson]

Extracts(json) == [pc |-> "extract", result |-> NoResult, data |-> json]

Resends == [pc |-> "send", result |-> NoResult, data |-> NoJson]

IsTimeout(rsp) == rsp.kind \in {"connect_timeout", "read_timeout"}

native_after_post_retry(rsp, key) ==
    IF IsTimeout(rsp) \/ (rsp.kind = "http" /\ rsp.status = 504)
    THEN Resends
    ELSE IF rsp.kind = "http" /\ rsp.status = 200 /\ rsp.body.valid
    THEN Extracts(rsp.body.json)
    ELSE Ends(native_error(rsp.status, rsp.body.text))

native_after_post_leak(rsp, key) ==
    IF IsTimeout(rsp)
    THEN Ends(Msg("Exception", "Timeout", "NATIVE_TIMEOUT", "", 0, <<>>))
    ELSE IF rsp.kind = "connection_error"
    THEN Ends(Msg("Exception", "NetworkFailure", "NETWORK", "", 0, <<key>>))
    ELSE IF rsp.status = 200
    THEN IF rsp.body.valid
         THEN Extracts(rsp.body.json)
         ELSE Ends(Msg("Exception", "MalformedResponse", "NON_JSON", "", 0, <<>>))
    ELSE Ends(native_error(rsp.status, rsp.body.text))

\* call_nano_banana_api from the POST's outcome on, native path
native_after_post(rsp, key) ==
    IF IsTimeout(rsp)
    THEN Ends(Msg("Exception", "Timeout", "NATIVE_TIMEOUT", "", 0, <<>>))
    ELSE IF rsp.kind = "connection_error"
    THEN Ends(Msg("Exception", "NetworkFailure", "NETWORK", "", 0, <<>>))
    ELSE IF rsp.status = 200
    THEN IF rsp.body.valid
         THEN Extracts(rsp.body.json)
         ELSE Ends(Msg("Exception", "MalformedResponse", "NON_JSON", "", 0, <<>>))
    ELSE Ends(native_error(rsp.status, rsp.body.text))

\* _call_openai_image_generation from the POST's outcome on
generation_after_post(rsp, key) ==
    IF IsTimeout(rsp)
    THEN Ends(Msg("Exception", "Timeout", "OPENAI_TIMEOUT", "", 0, <<>>))
    ELSE IF rsp.kind = "connection_error"
    THEN Ends(Msg("Exception", "NetworkFailure", "NETWORK", "", 0, <<>>))
    ELSE IF rsp.status = 200
    THEN IF rsp.body.valid
         THEN Extracts(rsp.body.json)
         ELSE Ends(Msg("Exception", "MalformedResponse", "NON_JSON", "", 0, <<>>))
    ELSE Ends(generation_error(rsp.status, rsp.body.text))

\* the edit handler parsing every JSON body, whatever the status
edit_after_post_any_status(rsp, key) ==
    IF IsTimeout(rsp)
    THEN Ends(Msg("Exception", "Timeout", "OPENAI_TIMEOUT", "", 0, <<>>))
    ELSE IF rsp.kind = "connection_error"
    THEN Ends(Msg("Exception", "NetworkFailure", "NETWORK", "", 0, <<>>))
    ELSE IF rsp.body.valid
    THEN Extracts(rsp.body.json)
    ELSE IF rsp.status = 200
    THEN Ends(Msg("Exception", "MalformedResponse", "NON_JSON", "", 0, <<>>))
    ELSE Ends(edit_error(rsp.status, rsp.body.text))

\* _call_openai_image_edit from the POST's outcome on
edit_after_post(rsp, key) ==
    IF IsTimeout(rsp)
    THEN Ends(Msg("Exception", "Timeout", "OPENAI_TIMEOUT", "", 0, <<>>))
    ELSE IF rsp.kind = "connection_error"
    THEN Ends(Msg("Exception", "NetworkFailure", "NETWORK", "", 0, <<>>))
    ELSE IF rsp.status = 200
    THEN IF rsp.body.valid
         THEN Extracts(rsp.body.json)
         ELSE Ends(Msg("Exception", "MalformedResponse", "NON_JSON", "", 0, <<>>))
    ELSE Ends(edit_error(rsp.status, rsp.body.text))

\* the handler of the path the request took
after_post(rt, rsp, key) ==
    CASE rt.variant = "native" -> native_after_post(rsp, key)
      [] rt.api = "/v1/images/edits" -> edit_after_post(rsp, key)
      [] OTHER -> generation_after_post(rsp, key)

-----------------------------------------------------------------------------
(* Response extraction *)

\* a decoded JSON body, reduced to the fields the extraction reads
Json(d, b64, url, cands, reason, content, parts) ==
    [data |-> d, b64_json |-> b64, url |-> url, candidates |-> cands,
     finishReason |-> reason, content |-> content, parts |-> parts]

\* one element of candidates[0].content.parts: its inline data (under either
\* key, as an object with a data field or as a bare string) and what the two
\* URL patterns find in its text
Part(inline, b64, md_url, bare_url) ==
    [inline |-> inline, data |-> b64, md_url |-> md_url, bare_url |-> bare_url]

\* what the extraction does next: decode a base64 string, start a download,
\* or raise
Decodes(b64) == [op |-> "decode", b64 |-> b64, url |-> "", proxy |-> <<>>, msg |-> NoMsg]

Downloads(url, proxy) ==
    [op |-> "download", b64 |-> "", url |-> url, proxy |-> proxy, msg |-> NoMsg]

Fails(m) == [op |-> "raise", b64 |-> "", url |-> "", proxy |-> <<>>, msg |-> m]

_parse_openai_response_url_first(response_json) ==
    IF response_json.data \in {"missing", "empty"}
    THEN Fails(Msg("Exception", "MalformedResponse", "NO_IMAGE_DATA", "", 0, <<>>))
    ELSE IF response_json.url # ""
    THEN Downloads(response_json.url, <<>>)
    ELSE IF response_json.b64_json # "absent"
    THEN Decodes(response_json.b64_json)
    ELSE Fails(Msg("Exception", "MalformedResponse", "CANNOT_PARSE", "", 0, <<>>))

_parse_openai_response(response_json) ==
    IF response_json.data \in {"missing", "empty"}
    THEN Fails(Msg("Exception", "MalformedResponse", "NO_IMAGE_DATA", "", 0, <<>>))
    ELSE IF response_json.b64_json # "absent"
    THEN Decodes(response_json.b64_json)
    ELSE IF response_json.url # ""
    THEN Downloads(response_json.url, <<>>)
    ELSE Fails(Msg("Exception", "MalformedResponse", "CANNOT_PARSE", "", 0, <<>>))

\* the values of finishReason the extraction lets through
NORMAL_FINISH == {"STOP", "MAX_TOKENS", ""}

\* reason_messages of extract_image_from_gemini_response
reason_message(finish_reason) ==
    CASE finish_reason = "SAFETY" ->
             Msg("Exception", "ContentFiltered", "SAFETY_BLOCKED", "", 0, <<>>)
      [] finish_reason = "RECITATION" ->
             Msg("Exception", "ContentFiltered", "RECITATION_BLOCKED", "", 0, <<>>)
      [] finish_reason = "OTHER" ->
             Msg("Exception", "GatewayError", "UNKNOWN_ERROR_RETRY", "", 0, <<>>)
      [] OTHER ->
             Msg("Exception", "GatewayError", "ABNORMAL_TERMINATION", finish_reason, 0, <<>>)

\* a part that the first loop returns from
HasInline(part) ==
    \/ part.inline = "dict" /\ part.data # ""
    \/ part.inline = "str"

\* a part that the second loop returns from
HasUrl(part) == part.md_url # "" \/ part.bare_url # ""

\* index of the part the first loop returns from, 0 when it returns from none
FirstInline(parts) ==
    IF \E i \in 1..Len(parts) : HasInline(parts[i])
    THEN CHOOSE i \in 1..Len(parts) :
             HasInline(parts[i]) /\ \A j \in 1..(i - 1) : ~ HasInline(parts[j])
    ELSE 0

\* index of the part the second loop returns from, 0 when it returns from none
FirstUrl(parts) ==
    IF \E i \in 1..Len(parts) : HasUrl(parts[i])
    THEN CHOOSE i \in 1..Len(parts) :
             HasUrl(parts[i]) /\ \A j \in 1..(i - 1) : ~ HasUrl(parts[j])
    ELSE 0

\* the two loops over parts
scan_parts(parts, proxy) ==
    LET i == FirstInline(parts)
        u == FirstUrl(parts)
    IN  IF i > 0
        THEN Decodes(parts[i].data)
        ELSE IF u > 0
        THEN Downloads(IF parts[u].md_url # "" THEN parts[u].md_url ELSE parts[u].bare_url,
                       proxy)
        ELSE Fails(Msg("Exception", "MalformedResponse", "NO_IMAGE_FOUND", "", 0, <<>>))

\* One element of parts as the JSON holds it.  The value under each of the
\* two inline keys is absent, an object (whose data field is a string, empty
\* or not, or missing) or a bare string; text is what the two URL patterns
\* find in the text field.
Absent == [type |-> "absent", data |-> ""]

InlineObject(d) == [type |-> "dict", data |-> d]

InlineString(d) == [type |-> "str", data |-> d]

JsonPart(inline_data, inlineData, md_url, bare_url) ==
    [inline_data |-> inline_data, inlineData |-> inlineData,
     md_url |-> md_url, bare_url |-> bare_url]

\* bool(v) for a value of part.get(key): None and "" are false, an object
\* with a field is true
TruthyInline(v) == v.type = "dict" \/ (v.type = "str" /\ v.data # "")

\* part.get('inline_data') or part.get('inlineData')
inline_value(part) ==
    IF TruthyInline(part.inline_data) THEN part.inline_data ELSE part.inlineData

\* what the two loops read of one part
read_part(part) ==
    LET v == inline_value(part)
    IN  Part(IF v.type = "absent" THEN "none" ELSE v.type,
             IF v.data = "missing" THEN "" ELSE v.data,
             part.md_url, part.bare_url)

extract_image_from_gemini_response_ignoring_reason(response_data, proxy) ==
    IF response_data.candidates \in {"missing", "empty"}
    THEN Fails(Msg("Exception", "MalformedResponse", "FORMAT_ABNORMAL", "", 0, <<>>))
    ELSE IF response_data.content \in {"missing", "empty"}
    THEN Fails(Msg("Exception", "GatewayError", "EMPTY_RESPONSE", "", 0, <<>>))
    ELSE IF response_data.content = "noparts"
    THEN Fails(Msg("Exception", "MalformedResponse", "FORMAT_ABNORMAL", "", 0, <<>>))
    ELSE scan_parts(response_data.parts, proxy)

extract_image_from_gemini_response(response_data, proxy) ==
    LET finish_reason == IF response_data.finishReason = "absent"
                         THEN ""
                         ELSE response_data.finishReason
    IN  IF response_data.candidates \in {"missing", "empty"}
        THEN Fails(Msg("Exception", "MalformedResponse", "FORMAT_ABNORMAL", "", 0, <<>>))
        ELSE IF finish_reason = "MALFORMED_FUNCTION_CALL"
        THEN Fails(Msg("Exception", "GatewayError", "SERVER_ABNORMAL", "", 0, <<>>))
        ELSE IF finish_reason # "" /\ finish_reason \notin NORMAL_FINISH
        THEN Fails(reason_message(finish_reason))
        ELSE IF response_data.content \in {"missing", "empty"}
        THEN Fails(Msg("Exception", "GatewayError", "EMPTY_RESPONSE", "", 0, <<>>))
        ELSE IF response_data.content = "noparts"
        THEN Fails(Msg("Exception", "MalformedResponse", "FORMAT_ABNORMAL", "", 0, <<>>))
        ELSE scan_parts(response_data.parts, proxy)

\* process_api_response; on the OpenAI path the image was extracted by
\* _parse_openai_response before call_nano_banana_api returned
process_api_response(rt, response_data, proxy) ==
    IF rt.variant = "openai"
    THEN _parse_openai_response(response_data)
    ELSE extract_image_from_gemini_response(response_data, proxy)

\* decode_base64_image on a payload that is, or is not, the base64 of an image
decode_base64_image(b64) ==
    IF b64 = "valid"
    THEN Image("b64", "")
    ELSE Raised(Msg("DecodeError", "MalformedResponse", "DECODE", "", 0, <<>>))

-----------------------------------------------------------------------------
(* download_image_from_url *)

DEFAULT_MAX_RETRIES == 3

NoLastError == [tag |-> "None", detail |-> <<>>]

\* the except clause an attempt's failure lands in sets last_error
last_error_of(o) ==
    CASE o.kind = "connect_timeout" -> [tag |-> "CONNECT_TIMEOUT", detail |-> <<>>]
      [] o.kind = "read_timeout" -> [tag |-> "READ_TIMEOUT", detail |-> <<>>]
      [] o.kind = "connection_error" -> [tag |-> "CONNECTION_ERROR", detail |-> o.text]
      [] OTHER -> [tag |-> "STR_E", detail |-> o.text]

Continues(le) == [pc |-> "download", result |-> NoResult, last_error |-> le]

Finishes(r, le) == [pc |-> "done", result |-> r, last_error |-> le]

DownloadFailed(le) ==
    Raised(Msg("Exception", "DownloadFailure", "DOWNLOAD_FAILED", le.tag, 0, le.detail))

after_get_retry_http(o, attempt, max_retries, url, le) ==
    IF o.kind = "ok"
    THEN Finishes(Image("download", url), le)
    ELSE LET e == last_error_of(o)
         IN  IF attempt < max_retries THEN Continues(e) ELSE Finishes(DownloadFailed(e), e)

\* the loop reporting the first failure instead of the last one
after_get_first_error(o, attempt, max_retries, url, le) ==
    IF o.kind = "ok"
    THEN Finishes(Image("download", url), le)
    ELSE IF o.kind = "http_error"
    THEN Finishes(Raised(Msg("Exception", "DownloadFailure", "LINK_EXPIRED", "", 0, <<>>)), le)
    ELSE LET e == IF le = NoLastError THEN last_error_of(o) ELSE le
         IN  IF attempt < max_retries THEN Continues(e) ELSE Finishes(DownloadFailed(e), e)

\* one iteration of the retry loop from the GET's outcome on, and the code
\* after the loop when it was the last iteration
after_get(o, attempt, max_retries, url, le) ==
    IF o.kind = "ok"
    THEN Finishes(Image("download", url), le)
    ELSE IF o.kind = "http_error"
    THEN Finishes(Raised(Msg("Exception", "DownloadFailure", "LINK_EXPIRED", "", 0, <<>>)), le)
    ELSE LET e == last_error_of(o)
         IN  IF attempt < max_retries THEN Continues(e) ELSE Finishes(DownloadFailed(e), e)

-----------------------------------------------------------------------------
(* Inputs: the calls the nodes make and what the network answers *)

MaxRefs == 2

MaxParts == 2

\* all sequences over S of length at most n
RECURSIVE SeqsUpTo(_, _)
SeqsUpTo(S, n) ==
    IF n = 0
    THEN {<<>>}
    ELSE LET shorter == SeqsUpTo(S, n - 1)
         IN  shorter \cup {Append(q, x) : q \in shorter, x \in S}

M_nano == <<"n","a","n","o","-","b","a","n","a","n","a">>

M_upper == <<"G","E","M","I","N","I","-","x">>

M_mixed == <<"x","-","G","e","m","i","n","i","-","u","r","l">>

M_near == <<"g","e","m","i","n","-","i">>

ModelIds == {CURRENT_MODEL, M_nano, M_upper, M_mixed, M_near}

P_none == <<>>

P_blank == <<" ">>

P_local == <<"h","t","t","p",":","/","/","p">>

U1 == "http://x/y.png"

U2 == "http://x/z.jpg"

ACCEL_URL == "https://api.aabao.top"

ApiKeys == {"", "sk-A", "sk-B"}

ValidKeys == {k \in ApiKeys : TruthyVal(k)}

Request(prompt, model, aspect_ratio, image_size, api_key, refs, proxy, network_url) ==
    [prompt |-> prompt, model |-> model, aspect_ratio |-> aspect_ratio,
     image_size |-> image_size, api_key |-> api_key,
     reference_images_base64 |-> refs, proxy |-> proxy, network_url |-> network_url]

RefLists == SeqsUpTo({"r1", "r2"}, MaxRefs) \cup {NoneStr}

\* every combination of the other arguments with one model identifier
RequestsOf(m) ==
    {Request(p, m, a, s, k, r, x, n) :
        p \in {<<"a">>, <<"b">>}, a \in {"16:9"},
        s \in {NoneStr, S_1K, S_2K, S_4K, S_2k}, k \in {"", "sk-A"}, r \in RefLists,
        x \in {P_none, P_blank, P_local}, n \in {NoneVal, ACCEL_URL}}

\* every combination of arguments: the domain of the routing
Requests == UNION {RequestsOf(m) : m \in ModelIds}

\* the calls followed through the network
PipelineRequests ==
    {Request(<<"a">>, m, "16:9", S_2K, k, r, x, n) :
        m \in {CURRENT_MODEL, M_mixed, M_nano}, k \in ApiKeys,
        r \in {q \in RefLists : q = <<>> \/ (q # NoneStr /\ q[1] = "r1")},
        x \in {P_none, P_local}, n \in {NoneVal, ACCEL_URL}}

OpenAIJsons ==
    {Json("missing", "absent", "", "missing", "absent", "missing", <<>>),
     Json("empty", "absent", "", "missing", "absent", "missing", <<>>)}
    \cup {Json("item", b, u, "missing", "absent", "missing", <<>>) :
            b \in {"absent", "valid", "invalid"}, u \in {"", U1, U2}}

PartKinds ==
    {Part("dict", "valid", "", ""), Part("dict", "", "", ""), Part("str", "invalid", "", ""),
     Part("none", "", U1, ""), Part("none", "", "", U2), Part("none", "", U2, U1),
     Part("none", "", "", "")}

FinishReasons ==
    {"absent", "", "STOP", "MAX_TOKENS", "MALFORMED_FUNCTION_CALL", "SAFETY",
     "RECITATION", "OTHER", "BLOCKLIST"}

NativeJsons ==
    {Json("missing", "absent", "", "missing", "absent", "missing", <<>>),
     Json("missing", "absent", "", "empty", "absent", "missing", <<>>)}
    \cup {Json("missing", "absent", "", "item", f, c, <<>>) :
            f \in FinishReasons, c \in {"missing", "empty", "noparts"}}
    \cup {Json("missing", "absent", "", "item", f, "parts", ps) :
            f \in FinishReasons, ps \in SeqsUpTo(PartKinds, MaxParts)}

\* the 200 bodies of the end-to-end runs
PipelineJsons ==
    {j \in OpenAIJsons : j.data # "empty" /\ j.b64_json # "invalid" /\ j.url # U2}
    \cup {j \in NativeJsons : /\ j.candidates = "item"
                              /\ j.finishReason \in {"absent", "SAFETY"}
                              /\ j.content = "parts"
                              /\ Len(j.parts) = 1
                              /\ j.parts[1].data \in {"valid", ""}
                              /\ j.parts[1].bare_url = ""}

Body(text, valid, json) == [text |-> text, valid |-> valid, json |-> json]

EmptyBody == Body(<<>>, FALSE, NoJson)

ErrorBodies ==
    {Body(<<"b","a","d">>, FALSE, NoJson),
     Body(S_DOCTYPE \o <<" ","h","t","m","l",">">>, FALSE, NoJson),
     Body(<<" ","\n">> \o S_html \o <<">">>, FALSE, NoJson),
     Body(<<"{">> \o S_model_not_found \o <<"}">>, FALSE, NoJson),
     Body(<<"e","r","r",":">> \o S_no_channel, FALSE, NoJson),
     Body([i \in 1..250 |-> IF i <= 100 THEN "a" ELSE IF i <= 200 THEN "b" ELSE "c"],
          FALSE, NoJson),
     Body(<<"{","d","a","t","a","}">>, TRUE,
          Json("item", "absent", U1, "missing", "absent", "missing", <<>>)),
     Body(<<"{","p","a","r","t","s","}">>, TRUE,
          Json("missing", "absent", "", "item", "STOP", "parts",
               <<Part("dict", "valid", "", "")>>))}

ErrorStatuses == {400, 401, 403, 429, 500, 502, 503, 504, 520, 524}

Response(kind, status, body) == [kind |-> kind, status |-> status, body |-> body]

NoResponse == Response("none", 0, EmptyBody)

\* everything requests.post can come back with
PostOutcomes ==
    {Response(k, 0, EmptyBody) : k \in {"connect_timeout", "read_timeout", "connection_error"}}
    \cup {Response("http", st, b) : st \in ErrorStatuses, b \in ErrorBodies}
    \cup {Response("http", 200, Body(<<"n","o","t"," ","j","s","o","n">>, FALSE, NoJson))}
    \cup {Response("http", 200, Body(<<"{","}">>, TRUE, j)) : j \in PipelineJsons}

GetOutcome(kind, text) == [kind |-> kind, text |-> text]

\* everything one requests.get attempt can end with
GetOutcomes ==
    {GetOutcome("ok", <<>>), GetOutcome("connect_timeout", <<>>),
     GetOutcome("read_timeout", <<>>), GetOutcome("connection_error", <<"refused">>),
     GetOutcome("http_error", <<"404">>), GetOutcome("other", <<"cannot identify image file">>)}

NoRoute ==
    [variant |-> "", api |-> "", body |-> "", base |-> "", model |-> <<>>, size |-> <<>>,
     prompt |-> <<>>, files |-> <<>>, parts |-> <<>>, config |-> NoConfig, role |-> "",
     bearer |-> "", proxy |-> <<>>, timeout |-> <<0, 0>>]

-----------------------------------------------------------------------------
(* The utility functions applied on their own *)

NoArgs == [name |-> "none"]

NoRet == [status |-> "none"]

IdleFn ==
    /\ fn = "none"
    /\ fn_args = NoArgs
    /\ returned = FALSE
    /\ fn_ret = NoRet

-----------------------------------------------------------------------------
(* decode_base64_image on strings *)

MaxBytes == 3

\* the alphabet of base64.b64decode; a character's value is its index less one
B64_ALPHABET ==
    <<"A","B","C","D","E","F","G","H","I","J","K","L","M","N","O","P","Q","R","S","T","U","V","W","X","Y","Z",
      "a","b","c","d","e","f","g","h","i","j","k","l","m","n","o","p","q","r","s","t","u","v","w","x","y","z",
      "0","1","2","3","4","5","6","7","8","9","+","/">>

IsB64Char(c) == \E i \in 1..Len(B64_ALPHABET) : B64_ALPHABET[i] = c

b64_value(c) == (CHOOSE i \in 1..Len(B64_ALPHABET) : B64_ALPHABET[i] = c) - 1

\* '=' * n
Pads(n) == [i \in 1..n |-> "="]

\* the first three bytes of a run of six-bit values; a run of two values
\* holds one byte and a run of three holds two
BytesOf(v) ==
    <<v[1] * 4 + (v[2] \div 16)>>
    \o (IF Len(v) >= 3 THEN <<(v[2] % 16) * 16 + (v[3] \div 4)>> ELSE <<>>)
    \o (IF Len(v) >= 4 THEN <<(v[3] % 4) * 64 + v[4]>> ELSE <<>>)

RECURSIVE ValuesToBytes(_)
ValuesToBytes(v) ==
    IF Len(v) < 2 THEN <<>>
    ELSE IF Len(v) <= 4 THEN BytesOf(v)
    ELSE BytesOf(SubSeq(v, 1, 4)) \o ValuesToBytes(SubSeq(v, 5, Len(v)))

B64Bytes(b) == [status |-> "bytes", bytes |-> b, error |-> ""]

B64Error(e) == [status |-> "error", bytes |-> <<>>, error |-> e]

\* base64.b64decode without validation: characters outside the alphabet are
\* skipped, a '=' that completes a quad ends the input, a '=' elsewhere is
\* skipped, and input that ends inside a quad is an error
RECURSIVE a2b_base64(_, _, _, _, _)
a2b_base64(s, i, quad_pos, pads, vals) ==
    IF i > Len(s)
    THEN IF quad_pos = 0 THEN B64Bytes(ValuesToBytes(vals))
         ELSE IF quad_pos = 1 THEN B64Error("ONE_MORE_THAN_MULTIPLE_OF_4")
         ELSE B64Error("INCORRECT_PADDING")
    ELSE IF s[i] = "="
    THEN IF quad_pos >= 2 /\ quad_pos + pads + 1 >= 4
         THEN B64Bytes(ValuesToBytes(vals))
         ELSE a2b_base64(s, i + 1, quad_pos, IF quad_pos >= 2 THEN pads + 1 ELSE pads, vals)
    ELSE IF ~ IsB64Char(s[i])
    THEN a2b_base64(s, i + 1, quad_pos, pads, vals)
    ELSE a2b_base64(s, i + 1, (quad_pos + 1) % 4, 0, Append(vals, b64_value(s[i])))

b64decode(s) == a2b_base64(s, 1, 0, 0, <<>>)

S_data == <<"d","a","t","a",":">>

\* step 1: the text after the first comma of a string that starts with data:
remove_data_uri(s) ==
    IF StartsWith(s, S_data) /\ \E i \in 1..Len(s) : s[i] = ","
    THEN LET comma_idx == CHOOSE i \in 1..Len(s) : s[i] = "," /\ \A j \in 1..(i - 1) : s[j] # ","
         IN  SubSeq(s, comma_idx + 1, Len(s))
    ELSE s

\* step 2: strip()
stripped_base64(s) == Strip(remove_data_uri(s))

padding_added_always(s) == 4 - (Len(s) % 4)

\* step 3: how many '=' are appended to the stripped string
padding_added(s) ==
    LET padding_needed == Len(s) % 4
    IN  IF padding_needed # 0 THEN 4 - padding_needed ELSE 0

\* the string decode_base64_image passes to base64.b64decode
normalize_base64(s) ==
    LET t == stripped_base64(s)
    IN  t \o Pads(padding_added(t))

\* image_data of decode_base64_image, or the exception of the decoder
decode_base64_bytes(s) == b64decode(normalize_base64(s))

\* base64.b64encode, for the payloads a server sends
RECURSIVE b64encode(_)
b64encode(b) ==
    IF b = <<>> THEN <<>>
    ELSE LET c1 == B64_ALPHABET[(b[1] \div 4) + 1]
             c2(x) == B64_ALPHABET[(b[1] % 4) * 16 + (x \div 16) + 1]
             c3(x, y) == B64_ALPHABET[(x % 16) * 4 + (y \div 64) + 1]
         IN  IF Len(b) = 1 THEN <<c1, c2(0), "=", "=">>
             ELSE IF Len(b) = 2 THEN <<c1, c2(b[2]), c3(b[2], 0), "=">>
             ELSE <<c1, c2(b[2]), c3(b[2], b[3]), B64_ALPHABET[(b[3] % 64) + 1]>>
                  \o b64encode(SubSeq(b, 4, Len(b)))

S_data_uri ==
    <<"d","a","t","a",":","i","m","a","g","e","/","p","n","g",";","b","a","s","e","6","4",",">>

\* the payload bytes, how many characters the string lacks at its end, the
\* prefix before it and the whitespace around it
Base64Input(b, k, prefix, ws) ==
    LET full == b64encode(b)
        body == SubSeq(full, 1, Len(full) - k)
        inner == IF ws = "body" THEN <<" ">> \o body \o <<"\n">> ELSE body
        whole == prefix \o inner
    IN  [name |-> "decode_base64_image", bytes |-> b, dropped |-> k, body |-> body,
         base64_string |-> IF ws = "all" THEN <<" ">> \o whole \o <<" ">> ELSE whole]

Base64Inputs ==
    {Base64Input(b, k, prefix, ws) :
        b \in SeqsUpTo({65, 66, 255}, MaxBytes) \ {<<>>}, k \in 0..3,
        prefix \in {<<>>, S_data_uri, S_data}, ws \in {"none", "body", "all"}}
    \cup {Base64Input(<<>>, 0, prefix, ws) :
        prefix \in {<<>>, S_data_uri}, ws \in {"none", "body"}}

-----------------------------------------------------------------------------
(* resize_image_to_max_dim *)

\* the significant bits of a Python float
MANTISSA_BITS == 53

\* long integers are sequences of digits of this base, most significant first
LIMB == 1024

LIMB_BITS == 10

RECURSIVE Pow2(_)
Pow2(k) == IF k = 0 THEN 1 ELSE 2 * Pow2(k - 1)

RECURSIVE NatLimbs(_)
NatLimbs(n) == IF n = 0 THEN <<>> ELSE Append(NatLimbs(n \div LIMB), n % LIMB)

RECURSIVE LimbsNat(_)
LimbsNat(q) ==
    IF q = <<>> THEN 0 ELSE LIMB * LimbsNat(SubSeq(q, 1, Len(q) - 1)) + q[Len(q)]

\* without the leading zero digits
RECURSIVE Normal(_)
Normal(q) == IF q # <<>> /\ q[1] = 0 THEN Normal(Tail(q)) ELSE q

\* the number of bits of a natural number
RECURSIVE BitLen(_)
BitLen(n) == IF n = 0 THEN 0 ELSE 1 + BitLen(n \div 2)

LimbsBitLen(q) ==
    LET m == Normal(q)
    IN  IF m = <<>> THEN 0 ELSE LIMB_BITS * (Len(m) - 1) + BitLen(m[1])

\* q + 1
RECURSIVE IncLimbs(_)
IncLimbs(q) ==
    IF q = <<>> THEN <<1>>
    ELSE IF q[Len(q)] < LIMB - 1 THEN [q EXCEPT ![Len(q)] = q[Len(q)] + 1]
    ELSE Append(IncLimbs(SubSeq(q, 1, Len(q) - 1)), 0)

\* q * w + carry, for a small w
RECURSIVE MulLimbs(_, _, _)
MulLimbs(q, w, carry) ==
    IF q = <<>> THEN NatLimbs(carry)
    ELSE LET d == q[Len(q)] * w + carry
         IN  Append(MulLimbs(SubSeq(q, 1, Len(q) - 1), w, d \div LIMB), d % LIMB)

\* quotient and remainder of (rem * LIMB^Len(q) + q) by a small d
RECURSIVE DivLimbs(_, _, _)
DivLimbs(q, d, rem) ==
    IF q = <<>> THEN [quot |-> <<>>, rem |-> rem]
    ELSE LET cur == rem * LIMB + q[1]
             rest == DivLimbs(Tail(q), d, cur % d)
         IN  [quot |-> <<cur \div d>> \o rest.quot, rem |-> rest.rem]

\* q shifted right by k bits, and whether a one bit was shifted out
ShiftRight(q, k) ==
    LET a == IF k \div LIMB_BITS > Len(q) THEN Len(q) ELSE k \div LIMB_BITS
        low == SubSeq(q, Len(q) - a + 1, Len(q))
        dv == DivLimbs(SubSeq(q, 1, Len(q) - a), Pow2(k % LIMB_BITS), 0)
    IN  [quot |-> IF k \div LIMB_BITS > Len(q) THEN <<>> ELSE Normal(dv.quot),
         lost |-> dv.rem # 0 \/ \E i \in 1..Len(low) : low[i] # 0]

\* a long integer rounded to MANTISSA_BITS bits, to nearest even: the
\* rounded leading bits and the number of bits dropped
RoundToFloat(q) ==
    LET n == LimbsBitLen(q)
        dropped == IF n > MANTISSA_BITS THEN n - MANTISSA_BITS ELSE 0
        keep1 == ShiftRight(q, dropped - 1)
        half == DivLimbs(keep1.quot, 2, 0)
        top == Normal(half.quot)
        up == half.rem = 1 /\ (keep1.lost \/ top[Len(top)] % 2 = 1)
    IN  IF dropped = 0 THEN [mant |-> Normal(q), dropped |-> 0]
        ELSE [mant |-> IF up THEN IncLimbs(top) ELSE top, dropped |-> dropped]

\* the number of zero bits after the binary point of r / d, for 0 < r < d
RECURSIVE LeadingZeros(_, _)
LeadingZeros(r, d) == IF 2 * r >= d THEN 0 ELSE 1 + LeadingZeros(2 * r, d)

\* the float t / c for 0 < t < c, as mant / 2^exp, rounded to nearest even
float_div(t, c) ==
    LET exp == LeadingZeros(t, c) + MANTISSA_BITS
        num == NatLimbs(t * Pow2(exp % LIMB_BITS)) \o [i \in 1..(exp \div LIMB_BITS) |-> 0]
        dv == DivLimbs(num, c, 0)
        quot == Normal(dv.quot)
        up == 2 * dv.rem > c \/ (2 * dv.rem = c /\ quot[Len(quot)] % 2 = 1)
    IN  [mant |-> IF up THEN IncLimbs(quot) ELSE quot, exp |-> exp]

\* int(x * f) for an integer x >= 1 and a float f = mant / 2^exp: the
\* product is rounded to a float and then truncated
int_of_product(x, f) ==
    LET r == RoundToFloat(MulLimbs(f.mant, x, 0))
    IN  IF f.exp >= r.dropped
        THEN LimbsNat(ShiftRight(r.mant, f.exp - r.dropped).quot)
        ELSE LimbsNat(r.mant) * Pow2(r.dropped - f.exp)

RECURSIVE DigitsNat(_)
DigitsNat(q) ==
    IF q = <<>> THEN 0
    ELSE 10 * DigitsNat(SubSeq(q, 1, Len(q) - 1))
         + (CHOOSE i \in 1..Len(DIGITS) : DIGITS[i] = q[Len(q)]) - 1

\* int(s) for a string: surrounding whitespace and one sign are accepted,
\* anything but digits after that is a ValueError
parse_int(str) ==
    LET t == Strip(str)
        signed == t # <<>> /\ t[1] \in {"+", "-"}
        ds == IF signed THEN Tail(t) ELSE t
    IN  IF ds # <<>> /\ \A i \in 1..Len(ds) : IsDigit(ds[i])
        THEN [ok |-> TRUE, value |-> IF signed /\ t[1] = "-" THEN 0 - DigitsNat(ds) ELSE DigitsNat(ds)]
        ELSE [ok |-> FALSE, value |-> 0]

S_auto == <<"a","u","t","o">>

Max(a, b) == IF a >= b THEN a ELSE b

\* int(side * scale) with scale = target_max_dim / current_max_dim
scaled_side(side, target_max_dim, current_max_dim) ==
    IF target_max_dim = 0 THEN 0
    ELSE IF target_max_dim < 0
    THEN 0 - int_of_product(side, float_div(0 - target_max_dim, current_max_dim))
    ELSE int_of_product(side, float_div(target_max_dim, current_max_dim))

SameImage(size) == [status |-> "same", size |-> size]

\* Image.resize refuses a size with a side below one
pil_resize(size) ==
    IF size[1] < 1 \/ size[2] < 1
    THEN [status |-> "error", size |-> size]
    ELSE [status |-> "resized", size |-> size]

\* resize_image_to_max_dim on an image of the given size
resize_image_to_max_dim(size, md) ==
    IF md = S_auto \/ md = <<>>
    THEN SameImage(size)
    ELSE IF ~ parse_int(md).ok
    THEN SameImage(size)
    ELSE LET target_max_dim == parse_int(md).value
             current_max_dim == Max(size[1], size[2])
         IN  IF current_max_dim <= target_max_dim
             THEN SameImage(size)
             ELSE pil_resize(<<scaled_side(size[1], target_max_dim, current_max_dim),
                               scaled_side(size[2], target_max_dim, current_max_dim)>>)

ImageSides == {300, 512, 561, 1024, 2000}

MaxDimInputs ==
    {S_auto, <<>>, <<"a","b","c">>, <<"5","1","2",".","0">>,
     <<"5","1","2">>, <<" ","5","1","2">>, <<"1","0","2","4">>}

-----------------------------------------------------------------------------
(* The inputs and the results of process_batch *)

MaxImages == 2

NoBatchOutput == [status |-> "none", images |-> <<>>, wrapper |-> "", cause |-> NoMsg]

NoFolder == [kind |-> "missing", files |-> 0, listing |-> <<>>]

IdleBatch ==
    /\ batch_prompt = <<>>
    /\ folder = NoFolder
    /\ output_folder = ""
    /\ max_dim = "auto"
    /\ num_fixed_refs = 0
    /\ batch_pc = "idle"
    /\ folder_loaded = FALSE
    /\ prompts = <<>>
    /\ total_images = 0
    /\ prompt_idx = 0
    /\ img_idx = 0
    /\ processed_count = 0
    /\ success_count = 0
    /\ failed_count = 0
    /\ all_processed_images = <<>>
    /\ saved = <<>>
    /\ api_calls = <<>>
    /\ log = <<>>
    /\ batch_output = NoBatchOutput

-----------------------------------------------------------------------------
(* The concurrent fan-out of generate_image *)

MaxBatchSize == 4

\* the three things a node can find at its api_config input
ApiConfigs == {"None", "short", "valid"}

\* any non-empty sequence accepted
config_ok_any_sequence(cfg) == cfg \in {"short", "valid"}

\* api_config and isinstance(api_config, (tuple, list)) and len(api_config) >= 3
config_ok(cfg) == cfg = "valid"

\* what one pipeline (call_nano_banana_api, process_api_response, resize,
\* pil_to_comfy_image) ends with: an image or an exception
PipelineResults ==
    {Image("download", U1),
     Raised(native_error(429, <<>>)),
     Raised(native_error(504, <<>>))}

\* sanitize_error_message: removes credentials from a message
sanitize_error_message(m) ==
    [m EXCEPT !.detail = SelectSeq(m.detail, LAMBDA c : c \notin ValidKeys)]

\* every worker reporting under the first index
_generate_single_image_first_index(batch_idx, r) ==
    IF r.status = "image"
    THEN [batch_idx |-> 1, comfy_image |-> batch_idx, error_msg |-> NoMsg]
    ELSE [batch_idx |-> 1, comfy_image |-> 0, error_msg |-> r.msg]

\* the tuple _generate_single_image returns; the image of worker i is i,
\* and 0 stands for None
_generate_single_image(batch_idx, r) ==
    IF r.status = "image"
    THEN [batch_idx |-> batch_idx, comfy_image |-> batch_idx, error_msg |-> NoMsg]
    ELSE [batch_idx |-> batch_idx, comfy_image |-> 0, error_msg |-> r.msg]

NoReturn == [batch_idx |-> 0, comfy_image |-> 0, error_msg |-> NoMsg]

Future(state, calls, ret) == [state |-> state, calls |-> calls, ret |-> ret]

\* errors.append(f"... {batch_idx}: {error_msg}")
error_entry(nd, batch_idx, error_msg) ==
    [batch_idx |-> batch_idx,
     msg |-> IF nd = "image_to_image" THEN sanitize_error_message(error_msg) ELSE error_msg]

\* list.sort(key=lambda x: x[0]) as a stable insertion sort
RECURSIVE InsertByIndex(_, _)
InsertByIndex(sorted, x) ==
    IF sorted = <<>>
    THEN <<x>>
    ELSE IF sorted[Len(sorted)][1] <= x[1]
    THEN Append(sorted, x)
    ELSE Append(InsertByIndex(SubSeq(sorted, 1, Len(sorted) - 1), x), sorted[Len(sorted)])

RECURSIVE SortByIndex(_)
SortByIndex(q) ==
    IF q = <<>> THEN <<>>
    ELSE InsertByIndex(SortByIndex(SubSeq(q, 1, Len(q) - 1)), q[Len(q)])

sorted_images_unsorted(images) == images

\* all_images.sort(key=lambda x: x[0])
sorted_images(images) == SortByIndex(images)

all_failed_any(n_success, n_failed) == n_failed > 0

\* the test "success_count == 0" after the collection
all_failed(n_success, n_failed) == n_success = 0

\* errors[:3]
error_detail(errs) == Prefix(errs, 3)

NoFanOutput ==
    [status |-> "none", images |-> <<>>, wrapper |-> "", cause |-> NoMsg,
     summaries |-> <<>>, warned |-> <<>>]

\* the outer except clause wraps every exception into one
FanRaised(nd, cause, summaries) ==
    [status |-> "raised", images |-> <<>>,
     wrapper |-> IF nd = "image_to_image" THEN "IMG2IMG_FAILED" ELSE "TEXT2IMG_FAILED",
     cause |-> IF nd = "image_to_image" THEN sanitize_error_message(cause) ELSE cause,
     summaries |-> summaries, warned |-> <<>>]

FanReturned(images, warned) ==
    [status |-> "returned", images |-> images, wrapper |-> "", cause |-> NoMsg,
     summaries |-> <<>>, warned |-> warned]

\* the code of generate_image after the collecting loop
finish_fan(nd, images, errs, n_success, n_failed) ==
    IF all_failed(n_success, n_failed)
    THEN FanRaised(nd, Msg("Exception", "AllFailed", "ALL_IMAGES_FAILED", "", 0, <<>>),
                   error_detail(errs))
    ELSE LET sorted == sorted_images(images)
         IN  FanReturned([i \in 1..Len(sorted) |-> sorted[i][2]],
                         IF n_failed > 0 THEN error_detail(errs) ELSE <<>>)

IdleFan ==
    /\ node = "none"
    /\ api_config = "None"
    /\ batch_size = 0
    /\ fan_pc = "idle"
    /\ workers = <<>>
    /\ completion_order = <<>>
    /\ all_images = <<>>
    /\ errors = <<>>
    /\ fan_success_count = 0
    /\ fan_failed_count = 0
    /\ fan_output = NoFanOutput

IdleCall ==
    /\ req = Request(<<>>, <<>>, "", NoneStr, "", NoneStr, <<>>, NoneVal)
    /\ pc = "idle"
    /\ route = NoRoute
    /\ posts = <<>>
    /\ resp = NoResponse
    /\ data = NoJson
    /\ downloads = <<>>
    /\ gets = <<>>
    /\ sleeps = 0
    /\ last_error = NoLastError
    /\ decodes = 0
    /\ result = NoResult

InitFanOut ==
    /\ IdleCall
    /\ node \in {"text_to_image", "image_to_image"}
    /\ api_config \in ApiConfigs
    /\ batch_size \in 1..MaxBatchSize
    /\ fan_pc = "start"
    /\ workers = <<>>
    /\ completion_order = <<>>
    /\ all_images = <<>>
    /\ errors = <<>>
    /\ fan_success_count = 0
    /\ fan_failed_count = 0
    /\ fan_output = NoFanOutput
    /\ IdleBatch
    /\ IdleFn

\* entry of generate_image: the api_config check, then the single call or
\* the submission of batch_size workers
generate_image ==
    /\ fan_pc = "start"
    /\ IF ~ config_ok(api_config)
       THEN /\ fan_pc' = "done"
            /\ fan_output' = FanRaised(node,
                   Msg("ValueError", "MissingConfig", "CONNECT_API_CONFIG", "", 0, <<>>), <<>>)
            /\ UNCHANGED workers
       ELSE IF batch_size = 1
       THEN /\ fan_pc' = "single"
            /\ UNCHANGED <<fan_output, workers>>
       ELSE /\ fan_pc' = "collect"
            /\ workers' = [i \in 1..batch_size |-> Future("running", 0, NoReturn)]
            /\ UNCHANGED fan_output
    /\ UNCHANGED <<node, api_config, batch_size, completion_order, all_images, errors,
                   fan_success_count, fan_failed_count>>
    /\ UNCHANGED <<callVars, batchVars, fnVars>>

\* the batch_size == 1 branch: one pipeline in the calling thread
generate_single ==
    /\ fan_pc = "single"
    /\ \E r \in PipelineResults :
         fan_output' = IF r.status = "image"
                       THEN FanReturned(<<1>>, <<>>)
                       ELSE FanRaised(node, r.msg, <<>>)
    /\ fan_pc' = "done"
    /\ UNCHANGED <<node, api_config, batch_size, workers, completion_order, all_images,
                   errors, fan_success_count, fan_failed_count>>
    /\ UNCHANGED <<callVars, batchVars, fnVars>>

\* one worker thread runs _generate_single_image to its end
worker_run(i) ==
    /\ fan_pc = "collect"
    /\ workers[i].state = "running"
    /\ \E r \in PipelineResults :
         workers' = [workers EXCEPT ![i] =
                        Future("finished", workers[i].calls + 1,
                               _generate_single_image(i, r))]
    /\ UNCHANGED <<node, api_config, batch_size, fan_pc, completion_order, all_images,
                   errors, fan_success_count, fan_failed_count, fan_output>>
    /\ UNCHANGED <<callVars, batchVars, fnVars>>

\* one iteration of "for future in as_completed(futures)", and the rest of
\* generate_image when it was the last one
collect(i) ==
    /\ fan_pc = "collect"
    /\ workers[i].state = "finished"
    /\ LET ret == workers[i].ret
           ok == ret.comfy_image # 0
           images == IF ok THEN Append(all_images, <<ret.batch_idx, ret.comfy_image>>)
                     ELSE all_images
           errs == IF ok THEN errors
                   ELSE Append(errors, error_entry(node, ret.batch_idx, ret.error_msg))
           n_success == IF ok THEN fan_success_count + 1 ELSE fan_success_count
           n_failed == IF ok THEN fan_failed_count ELSE fan_failed_count + 1
           last == Len(completion_order) + 1 = batch_size
       IN  /\ workers' = [workers EXCEPT ![i].state = "collected"]
           /\ completion_order' = Append(completion_order, i)
           /\ errors' = errs
           /\ fan_success_count' = n_success
           /\ fan_failed_count' = n_failed
           /\ IF last
              THEN /\ fan_pc' = "done"
                   /\ fan_output' = finish_fan(node, images, errs, n_success, n_failed)
                   /\ all_images' = IF all_failed(n_success, n_failed)
                                    THEN images
                                    ELSE sorted_images(images)
              ELSE /\ fan_pc' = "collect"
                   /\ fan_output' = fan_output
                   /\ all_images' = images
    /\ UNCHANGED <<node, api_config, batch_size>>
    /\ UNCHANGED <<callVars, batchVars, fnVars>>

NextFanOut ==
    \/ generate_image
    \/ generate_single
    \/ \E i \in 1..batch_size : worker_run(i)
    \/ \E i \in 1..batch_size : collect(i)

SpecFanOut == InitFanOut /\ [][NextFanOut]_vars

-----------------------------------------------------------------------------
(* The sequential loop of process_batch *)

\* str.split(sep) for a one-character separator
RECURSIVE Split(_, _)
Split(s, sep) ==
    IF \A i \in 1..Len(s) : s[i] # sep
    THEN <<s>>
    ELSE LET k == CHOOSE i \in 1..Len(s) : s[i] = sep /\ \A j \in 1..(i - 1) : s[j] # sep
         IN  <<SubSeq(s, 1, k - 1)>> \o Split(SubSeq(s, k + 1, Len(s)), sep)

\* [p.strip() for p in prompt.split('\n') if p.strip()]
parse_prompts(text) ==
    LET lines == Split(text, "\n")
    IN  SelectSeq([i \in 1..Len(lines) |-> Strip(lines[i])], LAMBDA l : l # <<>>)

\* load_images_from_folder: the number of images loaded, or what it raises
load_images_from_folder(f) ==
    IF f.kind = "missing"
    THEN Raised(Msg("ValueError", "Folder", "FOLDER_MISSING", "", 0, <<>>))
    ELSE IF f.kind = "file"
    THEN Raised(Msg("ValueError", "Folder", "NOT_A_FOLDER", "", 0, <<>>))
    ELSE Image("folder", <<>>)

\* the files in the order glob listed them
image_files_as_listed(f) == f.listing

\* image_files = sorted(set(image_files))
image_files(f) ==
    LET names == {f.listing[i] : i \in 1..Len(f.listing)}
    IN  [i \in 1..Cardinality(names) |->
            CHOOSE x \in names : Cardinality({y \in names : y < x}) = i - 1]

BatchRaised(cause) ==
    [status |-> "raised", images |-> <<>>, wrapper |-> "BATCH_FAILED",
     cause |-> sanitize_error_message(cause)]

BatchReturned(images) ==
    [status |-> "returned", images |-> images, wrapper |-> "", cause |-> NoMsg]

\* how the pipeline of one item can end: an exception of one of its stages,
\* or no exception
\* str(e) of an exception of the request layer.  Digits and the two
\* characters of the "too frequent" marker are elements of their own; every
\* other stretch of fixed text, which holds neither, is one element.
S_too_frequent == <<"pin","fan">>

\* the text parse_api_error returned, as the exception embeds it
friendly_text(m) ==
    CASE m.friendly = "GATEWAY_HTML" ->
             <<"(!) gateway message (code: ">> \o IntStr(m.status) \o <<")">>
      [] m.friendly = "GATEWAY_DETAIL" ->
             <<"(!) gateway message\n   detail: ">> \o m.detail
      [] m.friendly = "OTHER_HTML" ->
             <<"(!) server error (code: ">> \o IntStr(m.status) \o <<")">>
      [] m.friendly = "OTHER_DETAIL" ->
             <<"(!) API error (status ">> \o IntStr(m.status) \o <<"): ">> \o m.detail
      [] OTHER -> <<>>

\* the text of last_error inside the download failure message
last_error_text(m) ==
    CASE m.friendly = "CONNECT_TIMEOUT" -> <<"connect timeout">>
      [] m.friendly = "READ_TIMEOUT" -> <<"read timeout">>
      [] m.friendly = "CONNECTION_ERROR" -> <<"connection error: ">> \o m.detail
      [] OTHER -> m.detail

error_str(m) ==
    CASE m.tmpl = "TOO_FREQUENT" ->
             <<"(x) requests too ">> \o S_too_frequent \o <<", retry later">>
      [] m.tmpl = "NATIVE_SERVER_ERROR" ->
             <<"(x) server error, retry later or lower the resolution">>
      [] m.tmpl = "NATIVE_504" ->
             <<"(x) server response timed out ... test with ", "2", "K",
               " first, then generate ", "4", "K", " ... rerun manually">>
      [] m.tmpl = "OPENAI_504" ->
             <<"(x) ">> \o friendly_text(m)
                 \o <<"\n\nhint: ", "5", "0", "4", " timeout may be because ", "4", "K",
                      " takes long ... test with ", "2", "K", " first, then generate ",
                      "4", "K", " ... rerun manually">>
      [] m.tmpl = "OPENAI_SERVER_ERROR" ->
             <<"(x) ">> \o friendly_text(m)
                 \o <<"\nretry manually later or lower the resolution">>
      [] m.tmpl = "DOWNLOAD_FAILED" ->
             <<"(x) image download failed ... error: ">> \o last_error_text(m)
                 \o <<"\n check the network and retry">>
      [] OTHER -> <<m.tmpl>>

\* the test of the except clause: "429" in error_str or "503" in error_str
\* or "502" in error_str or the "too frequent" marker in error_str
overload_detected(error_text) ==
    \/ Contains(error_text, <<"4","2","9">>)
    \/ Contains(error_text, <<"5","0","3">>)
    \/ Contains(error_text, <<"5","0","2">>)
    \/ Contains(error_text, S_too_frequent)

\* the pause the loop makes before the next item's request: the loop never
\* sleeps, whatever the number of items that signalled an overload
item_interval(overloads_seen) == 0

ItemOutcome(stage, msg) == [stage |-> stage, msg |-> msg]

ItemOutcomes(out_folder, md) ==
    {ItemOutcome("api", native_error(429, <<>>)),
     ItemOutcome("api", native_error(401, <<>>)),
     ItemOutcome("extract", Msg("Exception", "MalformedResponse", "NO_IMAGE_DATA", "", 0, <<>>)),
     ItemOutcome("none", NoMsg)}
    \cup (IF md # "auto"
          THEN {ItemOutcome("resize", Msg("Exception", "Resize", "RESIZE_FAILED", "", 0, <<>>))}
          ELSE {})
    \cup (IF out_folder # ""
          THEN {ItemOutcome("save", Msg("Exception", "Save", "SAVE_FAILED", "", 0, <<>>))}
          ELSE {})

Item(p_idx, i_idx) == <<p_idx, i_idx>>

batch_failed_any(images, n_success, n_failed) == n_failed > 0

\* the test "len(all_processed_images) == 0" after the loops
batch_failed(images, n_success, n_failed) == Len(images) = 0

\* the code of process_batch after the loops
finish_batch(images, n_success, n_failed) ==
    IF batch_failed(images, n_success, n_failed)
    THEN BatchRaised(Msg("Exception", "AllFailed", "ALL_ITEMS_FAILED", "", 0, <<>>))
    ELSE BatchReturned(images)

\* the orders in which glob can list a folder of n image files; a file is
\* named by the rank of its path among the paths of the folder
Listings(n) ==
    {l \in [1..n -> 1..n] : \A i, j \in 1..n : i # j => l[i] # l[j]}

BatchPrompts ==
    {<<" ">>, <<"a">>, <<"a", " ", "\n", " ", "\n", "b">>}

Folders ==
    {[kind |-> "missing", files |-> 0, listing |-> <<>>],
     [kind |-> "file", files |-> 0, listing |-> <<>>]}
    \cup UNION {{[kind |-> "dir", files |-> n, listing |-> l] : l \in Listings(n)} :
                    n \in 0..MaxImages}

InitBatch ==
    /\ IdleCall
    /\ node = "batch_processor"
    /\ api_config \in ApiConfigs
    /\ batch_size = 0
    /\ fan_pc = "idle"
    /\ workers = <<>>
    /\ completion_order = <<>>
    /\ all_images = <<>>
    /\ errors = <<>>
    /\ fan_success_count = 0
    /\ fan_failed_count = 0
    /\ fan_output = NoFanOutput
    /\ batch_prompt \in BatchPrompts
    /\ folder \in Folders
    /\ output_folder \in {"", "out"}
    /\ max_dim \in {"auto", "1024"}
    /\ num_fixed_refs \in {0, 9}
    /\ batch_pc = "start"
    /\ folder_loaded = FALSE
    /\ prompts = <<>>
    /\ total_images = 0
    /\ prompt_idx = 0
    /\ img_idx = 0
    /\ processed_count = 0
    /\ success_count = 0
    /\ failed_count = 0
    /\ all_processed_images = <<>>
    /\ saved = <<>>
    /\ api_calls = <<>>
    /\ log = <<>>
    /\ batch_output = NoBatchOutput
    /\ IdleFn

\* entry of process_batch, up to the first iteration of the loops
process_batch ==
    /\ batch_pc = "start"
    /\ LET parsed == parse_prompts(batch_prompt)
           loaded == load_images_from_folder(folder)
       IN  IF ~ config_ok(api_config)
           THEN /\ batch_pc' = "done"
                /\ batch_output' = BatchRaised(
                       Msg("ValueError", "MissingConfig", "CONNECT_API_CONFIG", "", 0, <<>>))
                /\ UNCHANGED <<prompts, folder_loaded, total_images, prompt_idx, img_idx>>
           ELSE IF Len(parsed) = 0
           THEN /\ batch_pc' = "done"
                /\ batch_output' = BatchRaised(
                       Msg("ValueError", "NoPrompt", "NEED_ONE_PROMPT", "", 0, <<>>))
                /\ prompts' = parsed
                /\ UNCHANGED <<folder_loaded, total_images, prompt_idx, img_idx>>
           ELSE IF loaded.status = "error"
           THEN /\ batch_pc' = "done"
                /\ batch_output' = BatchRaised(loaded.msg)
                /\ prompts' = parsed
                /\ folder_loaded' = TRUE
                /\ UNCHANGED <<total_images, prompt_idx, img_idx>>
           ELSE IF folder.files = 0
           THEN /\ batch_pc' = "done"
                /\ batch_output' = BatchRaised(
                       Msg("Exception", "NoImages", "NO_IMAGES_IN_FOLDER", "", 0, <<>>))
                /\ prompts' = parsed
                /\ folder_loaded' = TRUE
                /\ UNCHANGED <<total_images, prompt_idx, img_idx>>
           ELSE /\ batch_pc' = "loop"
                /\ prompts' = parsed
                /\ folder_loaded' = TRUE
                /\ total_images' = Len(image_files(folder))
                /\ prompt_idx' = 1
                /\ img_idx' = 1
                /\ UNCHANGED batch_output
    /\ UNCHANGED <<batch_prompt, folder, output_folder, max_dim, num_fixed_refs,
                   processed_count, success_count, failed_count, all_processed_images,
                   saved, api_calls, log>>
    /\ UNCHANGED <<callVars, fanVars, fnVars>>

\* the next request issued while the previous item is still running
begin_item_without_waiting ==
    /\ batch_pc \in {"loop", "item"}
    /\ Len(api_calls) < total_images * Len(prompts)
    /\ batch_pc' = "item"
    /\ processed_count' = processed_count + 1
    /\ api_calls' = Append(api_calls,
                       [item |-> Item(prompt_idx, img_idx),
                        file |-> image_files(folder)[img_idx],
                        prompt |-> prompts[prompt_idx],
                        refs |-> num_fixed_refs + 1,
                        interval |-> item_interval(
                            Len(SelectSeq(log, LAMBDA l : l.overload)))])
    /\ UNCHANGED <<batch_prompt, folder, output_folder, max_dim, num_fixed_refs,
                   folder_loaded, prompts, total_images, prompt_idx, img_idx,
                   success_count, failed_count, all_processed_images, saved, log,
                   batch_output>>
    /\ UNCHANGED <<callVars, fanVars, fnVars>>

\* the start of one iteration of the inner loop, up to the API call
begin_item ==
    /\ batch_pc = "loop"
    /\ batch_pc' = "item"
    /\ processed_count' = processed_count + 1
    /\ api_calls' = Append(api_calls,
                       [item |-> Item(prompt_idx, img_idx),
                        file |-> image_files(folder)[img_idx],
                        prompt |-> prompts[prompt_idx],
                        refs |-> num_fixed_refs + 1,
                        interval |-> item_interval(
                            Len(SelectSeq(log, LAMBDA l : l.overload)))])
    /\ UNCHANGED <<batch_prompt, folder, output_folder, max_dim, num_fixed_refs,
                   folder_loaded, prompts, total_images, prompt_idx, img_idx,
                   success_count, failed_count, all_processed_images, saved, log,
                   batch_output>>
    /\ UNCHANGED <<callVars, fanVars, fnVars>>

\* the rest of the iteration once the item's pipeline has ended, and the
\* rest of process_batch when it was the last item
end_item ==
    /\ batch_pc = "item"
    /\ \E o \in ItemOutcomes(output_folder, max_dim) :
         LET item == Item(prompt_idx, img_idx)
             appended == o.stage \in {"save", "none"}
             images == IF appended THEN Append(all_processed_images, item)
                       ELSE all_processed_images
             ok == o.stage = "none"
             n_success == IF ok THEN success_count + 1 ELSE success_count
             n_failed == IF ok THEN failed_count ELSE failed_count + 1
             last == img_idx = total_images /\ prompt_idx = Len(prompts)
         IN  /\ all_processed_images' = images
             /\ saved' = IF ok /\ output_folder # ""
                         THEN Append(saved, [prefix |-> IF Len(prompts) > 1 THEN prompt_idx ELSE 0,
                                             file |-> img_idx])
                         ELSE saved
             /\ success_count' = n_success
             /\ failed_count' = n_failed
             /\ log' = Append(log, [item |-> item,
                                    outcome |-> IF ok THEN "ok" ELSE "failed",
                                    overload |-> ~ ok /\ overload_detected(error_str(o.msg)),
                                    error |-> sanitize_error_message(o.msg)])
             /\ IF last
                THEN /\ batch_pc' = "done"
                     /\ batch_output' = finish_batch(images, n_success, n_failed)
                     /\ UNCHANGED <<prompt_idx, img_idx>>
                ELSE /\ batch_pc' = "loop"
                     /\ batch_output' = batch_output
                     /\ IF img_idx < total_images
                        THEN /\ img_idx' = img_idx + 1
                             /\ prompt_idx' = prompt_idx
                        ELSE /\ img_idx' = 1
                             /\ prompt_idx' = prompt_idx + 1
    /\ UNCHANGED <<batch_prompt, folder, output_folder, max_dim, num_fixed_refs,
                   folder_loaded, prompts, total_images, processed_count, api_calls>>
    /\ UNCHANGED <<callVars, fanVars, fnVars>>

NextBatch == process_batch \/ begin_item \/ end_item

SpecBatch == InitBatch /\ [][NextBatch]_vars

-----------------------------------------------------------------------------
(* The utility functions as specifications of their own *)

InitDecode ==
    /\ IdleCall
    /\ IdleFan
    /\ IdleBatch
    /\ fn = "decode_base64_image"
    /\ fn_args \in Base64Inputs
    /\ returned = FALSE
    /\ fn_ret = NoRet

\* decode_base64_image up to the bytes handed to Image.open
decode_base64 ==
    /\ fn = "decode_base64_image"
    /\ ~ returned
    /\ returned' = TRUE
    /\ fn_ret' = [status |-> decode_base64_bytes(fn_args.base64_string).status,
                  passed |-> normalize_base64(fn_args.base64_string),
                  image_data |-> decode_base64_bytes(fn_args.base64_string).bytes,
                  error |-> decode_base64_bytes(fn_args.base64_string).error]
    /\ UNCHANGED <<fn, fn_args>>
    /\ UNCHANGED <<callVars, fanVars, batchVars>>

NextDecode == decode_base64

SpecDecode == InitDecode /\ [][NextDecode]_vars

InitResize ==
    /\ IdleCall
    /\ IdleFan
    /\ IdleBatch
    /\ fn = "resize_image_to_max_dim"
    /\ fn_args \in {[name |-> "resize_image_to_max_dim", size |-> <<w, h>>, max_dim |-> md] :
                      w \in ImageSides, h \in ImageSides, md \in MaxDimInputs}
    /\ returned = FALSE
    /\ fn_ret = NoRet

\* one call of resize_image_to_max_dim
resize_image ==
    /\ fn = "resize_image_to_max_dim"
    /\ ~ returned
    /\ returned' = TRUE
    /\ fn_ret' = resize_image_to_max_dim(fn_args.size, fn_args.max_dim)
    /\ UNCHANGED <<fn, fn_args>>
    /\ UNCHANGED <<callVars, fanVars, batchVars>>

NextResize == resize_image

SpecResize == InitResize /\ [][NextResize]_vars

\* the "宽高比" choices of the three nodes' INPUT_TYPES
NODE_ASPECT_RATIOS ==
    [n \in {"NanoBananaTextToImage", "NanoBananaImageToImage", "NanoBananaBatchProcessor"} |->
       <<"1:1", "4:3", "3:4", "16:9", "9:16", "2:3", "3:2", "4:5", "5:4", "21:9">>]

\* aspect ratios no node offers
OtherAspectRatios == {"", "1:2", "16:10", "auto", "1x1", "21:9 "}

SizeInputs ==
    {[name |-> "get_openai_model_and_size", node |-> n, model |-> m,
      aspect_ratio |-> a, image_size |-> z] :
        n \in DOMAIN NODE_ASPECT_RATIOS \cup {"direct"}, m \in {CURRENT_MODEL, M_nano},
        a \in {"1:1", "4:3", "3:4", "16:9", "9:16", "2:3", "3:2", "4:5", "5:4", "21:9"}
              \cup OtherAspectRatios,
        z \in {S_1K, S_2K, S_4K, NoneStr}}

\* a node passes one of its own choices; a direct caller passes anything
InitSize ==
    /\ IdleCall
    /\ IdleFan
    /\ IdleBatch
    /\ fn = "get_openai_model_and_size"
    /\ fn_args \in {x \in SizeInputs :
                      x.node \in DOMAIN NODE_ASPECT_RATIOS =>
                          \E i \in 1..Len(NODE_ASPECT_RATIOS[x.node]) :
                              NODE_ASPECT_RATIOS[x.node][i] = x.aspect_ratio}
    /\ returned = FALSE
    /\ fn_ret = NoRet

\* one call of get_openai_model_and_size
openai_model_and_size ==
    /\ fn = "get_openai_model_and_size"
    /\ ~ returned
    /\ returned' = TRUE
    /\ fn_ret' = LET pair == get_openai_model_and_size(fn_args.model,
                                  fn_args.aspect_ratio, fn_args.image_size)
                  IN  [status |-> "returned", actual_model |-> pair[1], size |-> pair[2]]
    /\ UNCHANGED <<fn, fn_args>>
    /\ UNCHANGED <<callVars, fanVars, batchVars>>

NextSize == openai_model_and_size

SpecSize == InitSize /\ [][NextSize]_vars

InlineValues ==
    {Absent, InlineObject("A"), InlineObject(""), InlineObject("missing"),
     InlineString("B"), InlineString("")}

\* the parts the scanning is applied to
JsonParts ==
    {JsonPart(Absent, Absent, u, v) : u \in {"", U1}, v \in {"", U2}}
    \cup {JsonPart(a, Absent, "", "") : a \in InlineValues}
    \cup {JsonPart(Absent, b, "", "") : b \in InlineValues}
    \cup {JsonPart(InlineObject(""), InlineString("B"), "", ""),
          JsonPart(InlineString(""), InlineObject("A"), "", "")}

InitParts ==
    /\ IdleCall
    /\ IdleFan
    /\ IdleBatch
    /\ fn = "extract_image_from_gemini_response"
    /\ fn_args \in {[name |-> "extract_image_from_gemini_response", parts |-> ps] :
                      ps \in SeqsUpTo(JsonParts, MaxParts)}
    /\ returned = FALSE
    /\ fn_ret = NoRet

\* extract_image_from_gemini_response on a candidate that finished with STOP,
\* up to the decode or the download it starts
extract_from_parts ==
    /\ fn = "extract_image_from_gemini_response"
    /\ ~ returned
    /\ returned' = TRUE
    /\ fn_ret' = LET parts == [i \in 1..Len(fn_args.parts) |-> read_part(fn_args.parts[i])]
                     next == extract_image_from_gemini_response(
                                 Json("missing", "absent", "", "item", "STOP", "parts", parts),
                                 P_none)
                 IN  IF next.op = "decode"
                     THEN [status |-> "decode", b64 |-> next.b64, url |-> "",
                           result |-> decode_base64_image(next.b64)]
                     ELSE IF next.op = "download"
                     THEN [status |-> "download", b64 |-> "", url |-> next.url,
                           result |-> NoResult]
                     ELSE [status |-> "raise", b64 |-> "", url |-> "",
                           result |-> Raised(next.msg)]
    /\ UNCHANGED <<fn, fn_args>>
    /\ UNCHANGED <<callVars, fanVars, batchVars>>

NextParts == extract_from_parts

SpecParts == InitParts /\ [][NextParts]_vars

\* why one batch item fails: an HTTP error status of the generation POST on
\* one of the three request functions, a finish reason of the content
\* filter, or a download whose last attempt fails
FailureCauses ==
    {[name |-> "batch_item_failure", kind |-> "http", path |-> p, status |-> st, text |-> b,
      get |-> GetOutcome("none", <<>>)] :
        p \in {"native", "generation", "edit"},
        st \in {401, 429, 500, 502, 503, 504},
        b \in {<<>>, <<"{","}">>, S_html \o <<">">>, <<"b","u","s","y"," ","5","0","3">>}}
    \cup {[name |-> "batch_item_failure", kind |-> "filtered", path |-> "native",
           status |-> 200, text |-> <<>>, get |-> GetOutcome(r, <<>>)] :
             r \in {"SAFETY", "RECITATION"}}
    \cup {[name |-> "batch_item_failure", kind |-> "download", path |-> p,
           status |-> 200, text |-> <<>>, get |-> o] :
             p \in {"native", "generation"}, o \in GetOutcomes \ {GetOutcome("ok", <<>>)}}

\* the exception the item's pipeline raises for a cause
item_exception(c) ==
    CASE c.kind = "http" /\ c.path = "native" -> native_error(c.status, c.text)
      [] c.kind = "http" /\ c.path = "generation" -> generation_error(c.status, c.text)
      [] c.kind = "http" /\ c.path = "edit" -> edit_error(c.status, c.text)
      [] c.kind = "filtered" -> reason_message(c.get.kind)
      [] OTHER -> after_get(c.get, DEFAULT_MAX_RETRIES, DEFAULT_MAX_RETRIES, U1,
                            NoLastError).result.msg

InitOverload ==
    /\ IdleCall
    /\ IdleFan
    /\ IdleBatch
    /\ fn = "batch_item_failure"
    /\ fn_args \in FailureCauses
    /\ returned = FALSE
    /\ fn_ret = NoRet

\* the except clause of the batch loop for one failed item
item_failed ==
    /\ fn = "batch_item_failure"
    /\ ~ returned
    /\ returned' = TRUE
    /\ fn_ret' = LET e == item_exception(fn_args)
                 IN  [status |-> "failed", error |-> e,
                      overload |-> overload_detected(error_str(e))]
    /\ UNCHANGED <<fn, fn_args>>
    /\ UNCHANGED <<callVars, fanVars, batchVars>>

NextOverload == item_failed

SpecOverload == InitOverload /\ [][NextOverload]_vars

-----------------------------------------------------------------------------
(* The call pipeline: call_nano_banana_api, then process_api_response *)

InitCall(r) ==
    /\ req = r
    /\ pc = "start"
    /\ route = NoRoute
    /\ posts = <<>>
    /\ resp = NoResponse
    /\ data = NoJson
    /\ downloads = <<>>
    /\ gets = <<>>
    /\ sleeps = 0
    /\ last_error = NoLastError
    /\ decodes = 0
    /\ result = NoResult
    /\ IdleFan
    /\ IdleBatch
    /\ IdleFn

\* entry of call_nano_banana_api: the credential check, the routing and the
\* construction of the request
call_nano_banana_api ==
    /\ pc = "start"
    /\ IF ~ TruthyVal(req.api_key)
       THEN /\ pc' = "done"
            /\ result' = Raised(Msg("ValueError", "MissingKey", "API_KEY_REQUIRED", "", 0, <<>>))
            /\ route' = route
       ELSE /\ pc' = "send"
            /\ result' = result
            /\ route' = build_request(req)
    /\ UNCHANGED <<req, posts, resp, data, downloads, gets, sleeps, last_error, decodes>>
    /\ UNCHANGED <<fanVars, batchVars, fnVars>>

\* requests.post and the rest of the function that issued it
requests_post ==
    /\ pc = "send"
    /\ \E rsp \in PostOutcomes :
         LET step == after_post(route, rsp, req.api_key)
         IN  /\ posts' = Append(posts, route)
             /\ resp' = rsp
             /\ pc' = step.pc
             /\ result' = step.result
             /\ data' = step.data
    /\ UNCHANGED <<req, route, downloads, gets, sleeps, last_error, decodes>>
    /\ UNCHANGED <<fanVars, batchVars, fnVars>>

\* the extraction of the image from a 200 body, up to the first GET of a
\* follow-up download
extract_image ==
    /\ pc = "extract"
    /\ LET step == process_api_response(route, data, req.proxy)
       IN  CASE step.op = "decode" ->
                  /\ decodes' = decodes + 1
                  /\ result' = decode_base64_image(step.b64)
                  /\ pc' = "done"
                  /\ UNCHANGED downloads
             [] step.op = "download" ->
                  /\ downloads' = Append(downloads,
                         [url |-> step.url, proxy |-> active_proxy(step.proxy),
                          max_retries |-> DEFAULT_MAX_RETRIES])
                  /\ pc' = "download"
                  /\ UNCHANGED <<decodes, result>>
             [] OTHER ->
                  /\ result' = Raised(step.msg)
                  /\ pc' = "done"
                  /\ UNCHANGED <<decodes, downloads>>
    /\ UNCHANGED <<req, route, posts, resp, data, gets, sleeps, last_error>>
    /\ UNCHANGED <<fanVars, batchVars, fnVars>>

\* one iteration of download_image_from_url's loop
requests_get ==
    /\ pc = "download"
    /\ LET d == downloads[Len(downloads)]
           attempt == Len(gets) + 1
       IN  /\ attempt <= d.max_retries
           /\ sleeps' = IF attempt > 1 THEN sleeps + 1 ELSE sleeps
           /\ \E o \in GetOutcomes :
                LET step == after_get(o, attempt, d.max_retries, d.url, last_error)
                IN  /\ gets' = Append(gets, o)
                    /\ pc' = step.pc
                    /\ result' = step.result
                    /\ last_error' = step.last_error
    /\ UNCHANGED <<req, route, posts, resp, data, downloads, decodes>>
    /\ UNCHANGED <<fanVars, batchVars, fnVars>>

Init == \E r \in PipelineRequests : InitCall(r)

Next == call_nano_banana_api \/ requests_post \/ extract_image \/ requests_get

Spec == Init /\ [][Next]_vars

\* the routing alone, over every combination of arguments
InitRoute == \E r \in Requests : InitCall(r)

NextRoute == call_nano_banana_api

SpecRoute == InitRoute /\ [][NextRoute]_vars

MaxRetries == 3

\* download_image_from_url called on its own with max_retries = k
InitDownload ==
    \E k \in 0..MaxRetries : \E x \in {P_none, P_local} :
        /\ req = Request(<<>>, <<>>, "", NoneStr, "", NoneStr, x, NoneVal)
        /\ pc = "download"
        /\ route = NoRoute
        /\ posts = <<>>
        /\ resp = NoResponse
        /\ data = NoJson
        /\ downloads = <<[url |-> U1, proxy |-> active_proxy(x), max_retries |-> k]>>
        /\ gets = <<>>
        /\ sleeps = 0
        /\ last_error = NoLastError
        /\ decodes = 0
        /\ result = NoResult
        /\ IdleFan
        /\ IdleBatch
        /\ fn = "download_image_from_url"
        /\ fn_args = [name |-> "download_image_from_url", url |-> U1, max_retries |-> k]
        /\ returned = FALSE
        /\ fn_ret = NoRet

\* range(1, max_retries + 1) is empty: the code after the loop runs at once
download_without_attempt ==
    /\ pc = "download"
    /\ downloads[Len(downloads)].max_retries < 1
    /\ pc' = "done"
    /\ result' = DownloadFailed(last_error)
    /\ UNCHANGED <<req, route, posts, resp, data, downloads, gets, sleeps, last_error, decodes>>
    /\ UNCHANGED <<fanVars, batchVars, fnVars>>

NextDownload == requests_get \/ download_without_attempt

SpecDownload == InitDownload /\ [][NextDownload]_vars

\* bodies of error responses: HTML pages in several spellings, short and long
\* plain texts
ParseErrorBodies ==
    {<<>>,
     S_DOCTYPE \o <<" ","h","t","m","l",">">>,
     <<" ","\n">> \o S_html \o <<">","5","0","2">>,
     <<"<","!","d","o","c","t","y","p","e"," ","h","t","m","l",">">>,
     <<"<","H","T","M","L",">">>,
     <<"\t","<","H","t","m","l",">">>,
     <<"{","e","r","r","}">>,
     <<"x","<","h","t","m","l",">">>,
     [i \in 1..100 |-> "a"],
     [i \in 1..101 |-> IF i <= 100 THEN "a" ELSE "b"],
     [i \in 1..200 |-> "a"],
     [i \in 1..250 |-> IF i <= 100 THEN "a" ELSE IF i <= 200 THEN "b" ELSE "c"]}

InitParseError ==
    /\ IdleCall
    /\ IdleFan
    /\ IdleBatch
    /\ fn = "parse_api_error"
    /\ fn_args \in {[name |-> "parse_api_error", status_code |-> st, error_text |-> b] :
                      st \in {400, 404, 500, 502, 503, 504, 520, 524}, b \in ParseErrorBodies}
    /\ returned = FALSE
    /\ fn_ret = NoRet

\* one call of parse_api_error
parse_error ==
    /\ fn = "parse_api_error"
    /\ ~ returned
    /\ returned' = TRUE
    /\ fn_ret' = [status |-> "returned",
                  message |-> parse_api_error(fn_args.status_code, fn_args.error_text)]
    /\ UNCHANGED <<fn, fn_args>>
    /\ UNCHANGED <<callVars, fanVars, batchVars>>

NextParseError == parse_error

SpecParseError == InitParseError /\ [][NextParseError]_vars

\* the calls whose 200 body reaches the extraction
ExtractRequests ==
    {r \in PipelineRequests :
        r.api_key = "sk-A" /\ r.network_url = NoneVal /\ r.reference_images_base64 = <<>>
        /\ r.model \in {CURRENT_MODEL, M_nano}}

\* the state in which a 200 body with valid JSON has just been received
InitExtract ==
    \E r \in ExtractRequests :
      \E j \in (IF is_openai_format_model(r.model, r.network_url)
                THEN OpenAIJsons \cup {k \in NativeJsons : k.content # "parts"}
                ELSE NativeJsons \cup {k \in OpenAIJsons : k.url # U2}) :
        /\ req = r
        /\ pc = "extract"
        /\ route = build_request(r)
        /\ posts = <<build_request(r)>>
        /\ resp = Response("http", 200, Body(<<"{","}">>, TRUE, j))
        /\ data = j
        /\ downloads = <<>>
        /\ gets = <<>>
        /\ sleeps = 0
        /\ last_error = NoLastError
        /\ decodes = 0
        /\ result = NoResult
        /\ IdleFan
        /\ IdleBatch
        /\ IdleFn

NextExtract == extract_image \/ requests_get

SpecExtract == InitExtract /\ [][NextExtract]_vars

\* call_openai_format_api called on its own
OpenAICallInputs ==
    {[name |-> "call_openai_format_api", prompt |-> p, model |-> m, size |-> S_1024x1024,
      api_key |-> k, reference_images_base64 |-> r, network_url |-> n, proxy |-> x] :
        p \in {<<"a">>, <<"b">>}, m \in {S_base_model \o S_url, M_nano},
        k \in {"", NoneVal, "sk-A"}, r \in RefLists,
        n \in {NoneVal, ACCEL_URL}, x \in {P_none, P_local}}

InitOpenAICall ==
    /\ IdleCall
    /\ IdleFan
    /\ IdleBatch
    /\ fn = "call_openai_format_api"
    /\ fn_args \in OpenAICallInputs
    /\ returned = FALSE
    /\ fn_ret = NoRet

\* one call of call_openai_format_api, up to its request
openai_format_call ==
    /\ fn = "call_openai_format_api"
    /\ ~ returned
    /\ returned' = TRUE
    /\ fn_ret' = IF ~ TruthyVal(fn_args.api_key)
                 THEN [status |-> "raised", request |-> NoRoute,
                       msg |-> Msg("ValueError", "MissingKey", "API_KEY_EMPTY", "", 0, <<>>)]
                 ELSE [status |-> "posted",
                       request |-> call_openai_format_api(fn_args.prompt, fn_args.model,
                                       fn_args.size, fn_args.api_key,
                                       fn_args.reference_images_base64,
                                       fn_args.network_url, fn_args.proxy),
                       msg |-> NoMsg]
    /\ UNCHANGED <<fn, fn_args>>
    /\ UNCHANGED <<callVars, fanVars, batchVars>>

\* the calls with and without an API key
CredentialRequests ==
    PipelineRequests
    \cup {Request(<<"a">>, m, "16:9", S_2K, NoneVal, <<>>, x, NoneVal) :
              m \in {CURRENT_MODEL, M_nano}, x \in {P_none, P_local}}

\* every entry point that takes credentials: the two request functions and
\* the three nodes
InitCredentials ==
    \/ \E r \in CredentialRequests : InitCall(r)
    \/ InitOpenAICall
    \/ InitFanOut
    \/ InitBatch

NextCredentials ==
    \/ call_nano_banana_api
    \/ requests_post
    \/ extract_image
    \/ requests_get
    \/ openai_format_call
    \/ generate_image
    \/ generate_single
    \/ \E i \in 1..batch_size : worker_run(i)
    \/ \E i \in 1..batch_size : collect(i)
    \/ process_batch
    \/ begin_item
    \/ end_item

SpecCredentials == InitCredentials /\ [][NextCredentials]_vars

-----------------------------------------------------------------------------
(* Properties *)

\* C1: the protocol is chosen from the model identifier alone.  Once a call
\* with a credential has been routed, the variant is the native one exactly
\* when the identifier holds the letters g-e-m-i-n-i in a row, in either
\* case, and the OpenAI one for every other identifier; and every other call
\* with the same identifier, whatever its prompt, reference images, proxy,
\* network_url, aspect ratio or resolution, is routed to the same variant.
ProtocolSelectedByModelOnly ==
    (pc = "send") =>
        LET m == req.model
            marker == <<{"g","G"}, {"e","E"}, {"m","M"}, {"i","I"}, {"n","N"}, {"i","I"}>>
            has_marker == \E i \in 0..(Len(m) - 6) : \A j \in 1..6 : m[i + j] \in marker[j]
        IN  /\ route.variant = IF has_marker THEN "native" ELSE "openai"
            /\ \A r \in RequestsOf(m) :
                 TruthyVal(r.api_key) => build_request(r).variant = route.variant

\* C1 witness: an upper-case identifier on the accelerated route, with
\* reference images and a proxy, has been routed to the native protocol
UpperCaseMarkerRoutedNative ==
    /\ pc = "send"
    /\ req.model = M_upper
    /\ req.network_url = ACCEL_URL
    /\ req.proxy = P_local
    /\ Len(req.reference_images_base64) = 2
    /\ route.variant = "native"

Succeeded == {i \in DOMAIN workers : workers[i].ret.comfy_image # 0}

\* C3: when the fan-out returns, the images of any two workers i < j that
\* both succeeded are both in the returned batch, the one of i before the
\* one of j, whatever the order in which the workers completed.
FanOutOrderedBySubmission ==
    (fan_pc = "done" /\ fan_output.status = "returned" /\ batch_size > 1) =>
        \A i, j \in Succeeded :
            i < j =>
              \E p, q \in 1..Len(fan_output.images) :
                  /\ p < q
                  /\ fan_output.images[p] = workers[i].ret.comfy_image
                  /\ fan_output.images[q] = workers[j].ret.comfy_image

\* C3 witness: three workers completed in the order 3, 2, 1, all with an
\* image, and the returned batch is in the order 1, 2, 3
ReverseCompletionReturnedInOrder ==
    /\ fan_pc = "done"
    /\ batch_size = 3
    /\ completion_order = <<3, 2, 1>>
    /\ fan_output.status = "returned"
    /\ fan_output.images = <<1, 2, 3>>

ItemAt(k) == Item(((k - 1) \div total_images) + 1, ((k - 1) % total_images) + 1)

AbnormalFinishFailsWithoutExtraction ==
    (pc # "extract" /\ route.variant = "native" /\ data.candidates = "item") =>
        LET f == data.finishReason
            normal == f \in {"absent", "", "STOP", "MAX_TOKENS"}
        IN  /\ ~ normal =>
                  /\ result.status = "error"
                  /\ decodes = 0
                  /\ downloads = <<>>
                  /\ gets = <<>>
            /\ (f = "MALFORMED_FUNCTION_CALL") =>
                  (result.msg.kind = "GatewayError" /\ result.msg.tmpl = "SERVER_ABNORMAL")
            /\ (f \in {"SAFETY", "RECITATION"}) =>
                  /\ result.msg.kind = "ContentFiltered"
                  /\ \A j \in NativeJsons :
                       LET other == extract_image_from_gemini_response(j, req.proxy)
                       IN  (other.op = "raise" /\ other.msg.kind # "ContentFiltered")
                              => other.msg.tmpl # result.msg.tmpl
            /\ (normal /\ data.content = "empty") =>
                  /\ result.status = "error"
                  /\ result.msg.kind = "GatewayError"
                  /\ result.msg.tmpl = "EMPTY_RESPONSE"
                  /\ decodes = 0
                  /\ downloads = <<>>

\* C6 witness: a SAFETY candidate whose first part carries a decodable image
\* ended as content filtered
SafetyWithImageFiltered ==
    /\ pc = "done"
    /\ route.variant = "native"
    /\ data.finishReason = "SAFETY"
    /\ Len(data.parts) = 2
    /\ data.parts[1] = Part("dict", "valid", "", "")
    /\ data.parts[2] = Part("none", "", U1, "")
    /\ result.status = "error"
    /\ result.msg.kind = "ContentFiltered"

\* C7: for a non-200 status whose body has no model-unavailable marker the
\* kind of the failure is a function of the status code alone, the same on
\* the three request paths: 401 Auth, 429 RateLimited, 504 GatewayTimeout,
\* anything else GatewayError; and the 504 text is raised for no other code.
StatusDecidesKind ==
    (pc = "done" /\ resp.kind = "http" /\ resp.status # 200
        /\ ~ has_model_marker(resp.body.text)) =>
        /\ result.status = "error"
        /\ result.msg.kind = CASE resp.status = 401 -> "Auth"
                               [] resp.status = 429 -> "RateLimited"
                               [] resp.status = 504 -> "GatewayTimeout"
                               [] OTHER -> "GatewayError"
        /\ (result.msg.tmpl \in {"NATIVE_504", "OPENAI_504"}) <=> (resp.status = 504)

\* C7 witness: a 429 with an HTML body on the generations path ended as
\* RateLimited
RateLimitedOnGenerations ==
    /\ pc = "done"
    /\ route.api = "/v1/images/generations"
    /\ resp.kind = "http"
    /\ resp.status = 429
    /\ StartsWith(resp.body.text, S_DOCTYPE)
    /\ result.msg.kind = "RateLimited"

OpenAIResponseParsed ==
    (pc # "extract" /\ route.variant = "openai" /\ resp.status = 200) =>
        IF data.data = "item" /\ data.b64_json # "absent"
        THEN /\ decodes = 1
             /\ downloads = <<>>
             /\ gets = <<>>
             /\ (data.b64_json = "valid") => result = Image("b64", "")
        ELSE IF data.data = "item" /\ data.url # ""
        THEN /\ decodes = 0
             /\ Len(downloads) = 1
             /\ downloads[1].url = data.url
             /\ (result.status = "image") => result = Image("download", data.url)
             /\ (gets # <<>> /\ gets[Len(gets)].kind = "ok") => result.status = "image"
        ELSE /\ result.status = "error"
             /\ result.msg.kind = "MalformedResponse"
             /\ result.msg.tmpl \in {"NO_IMAGE_DATA", "CANNOT_PARSE"}
             /\ decodes = 0
             /\ downloads = <<>>
             /\ gets = <<>>

\* C9 witness: a body with only a URL was answered by one download of that
\* URL, whose image was returned
UrlOnlyDownloadedOnce ==
    /\ pc = "done"
    /\ route.variant = "openai"
    /\ data.data = "item"
    /\ data.b64_json = "absent"
    /\ data.url = U1
    /\ Len(downloads) = 1
    /\ downloads[1].url = U1
    /\ result = Image("download", U1)

\* C10 as stated: an attempt is followed by another one only when it failed
\* with a connect timeout, a read timeout or a connection error; an HTTP
\* error status and any other failure are the last attempt.
OnlyListedErrorsRetried ==
    \A i \in 1..Len(gets) :
        /\ (i < Len(gets)) =>
              gets[i].kind \in {"connect_timeout", "read_timeout", "connection_error"}
        /\ (gets[i].kind \in {"http_error", "other"}) => (i = Len(gets) /\ pc = "done")

\* C10 amended: an attempt is followed by another one exactly when it failed
\* with anything but an HTTP error status and attempts remain: connect
\* timeouts, read timeouts, connection errors and every other exception are
\* retried alike; an HTTP error status ends the download at once with a
\* failure.
AllButHttpErrorsRetried ==
    \A i \in 1..Len(gets) :
        /\ (i < Len(gets)) =>
              gets[i].kind \in {"connect_timeout", "read_timeout", "connection_error", "other"}
        /\ (gets[i].kind = "http_error") =>
              /\ i = Len(gets)
              /\ pc = "done"
              /\ result.status = "error"
              /\ result.msg.tmpl = "LINK_EXPIRED"
        /\ (gets[i].kind \in {"connect_timeout", "read_timeout", "connection_error", "other"}
              /\ i < downloads[1].max_retries) =>
              (i < Len(gets) \/ pc = "download")

\* C10 witness: an attempt whose bytes were no image was followed by a
\* second attempt, which got an HTTP error status and ended the download
UndecodableThenHttpError ==
    /\ pc = "done"
    /\ Len(gets) = 2
    /\ gets[1].kind = "other"
    /\ gets[2].kind = "http_error"
    /\ result.status = "error"

\* the number of '=' at the end of a string
RECURSIVE TrailingPads(_)
TrailingPads(s) ==
    IF s # <<>> /\ s[Len(s)] = "=" THEN 1 + TrailingPads(SubSeq(s, 1, Len(s) - 1)) ELSE 0

\* the string lacks nothing but padding characters of its payload's encoding
OnlyPadsDropped == fn_args.dropped <= TrailingPads(b64encode(fn_args.bytes))

\* removing the prefix and stripping leaves exactly the base64 body
BodyReached == stripped_base64(fn_args.base64_string) = fn_args.body

\* what every run of decode_base64_image does to the string: the decoder
\* gets the stripped string followed by (4 - len mod 4) mod 4 pads, a length
\* that is a multiple of four; a body whose length is one already is passed
\* unchanged, and normalising what was passed changes nothing
Base64Normalised ==
    LET t == stripped_base64(fn_args.base64_string)
        k == (4 - (Len(t) % 4)) % 4
    IN  /\ Len(fn_ret.passed) % 4 = 0
        /\ fn_ret.passed = t \o Pads(k)
        /\ (BodyReached /\ Len(t) % 4 = 0) => fn_ret.passed = fn_args.body
        /\ BodyReached => normalize_base64(fn_ret.passed) = fn_ret.passed

\* C11 as stated: the string is normalised as described and a body that
\* lacks 1, 2 or 3 characters to a multiple of four, with or without the
\* data-URI prefix, is decoded to bytes, the payload's bytes when only
\* padding was missing.
Base64RepairsUpToThreePads ==
    (fn = "decode_base64_image" /\ returned) =>
        /\ Base64Normalised
        /\ (BodyReached /\ Len(fn_args.body) % 4 # 0) => fn_ret.status = "bytes"
        /\ (BodyReached /\ OnlyPadsDropped) => fn_ret.image_data = fn_args.bytes

\* C11 amended: the string is normalised as described; a body that lacks 1
\* or 2 characters to a multiple of four, with or without the data-URI
\* prefix, is decoded to bytes, the payload's bytes when only padding was
\* missing; a body of base64 characters whose length is one more than a
\* multiple of four gets three pads and is rejected by the decoder.
Base64RepairsOneOrTwoPads ==
    (fn = "decode_base64_image" /\ returned) =>
        /\ Base64Normalised
        /\ (BodyReached /\ Len(fn_args.body) % 4 \in {2, 3}) => fn_ret.status = "bytes"
        /\ (BodyReached /\ OnlyPadsDropped) =>
              /\ fn_ret.status = "bytes"
              /\ fn_ret.image_data = fn_args.bytes
        /\ (BodyReached /\ Len(fn_args.body) % 4 = 1
              /\ \A i \in 1..Len(fn_args.body) : IsB64Char(fn_args.body[i])) =>
              /\ fn_ret.passed = fn_args.body \o Pads(3)
              /\ fn_ret.status = "error"

\* C11 witness: the payload of one byte, sent with the data-URI prefix and
\* without its two pads, was passed to the decoder as QQ== and gave the byte
PrefixedUnpaddedDecoded ==
    /\ fn = "decode_base64_image"
    /\ returned
    /\ fn_args.bytes = <<65>>
    /\ fn_args.dropped = 2
    /\ fn_args.base64_string = S_data_uri \o <<"Q", "Q">>
    /\ fn_ret.passed = <<"Q", "Q", "=", "=">>
    /\ fn_ret.image_data = <<65>>

\* C12: with a numeric maximum that the longer side does not exceed, and
\* with "auto", an empty or a non-numeric maximum, the very same image is
\* returned; otherwise the result is an image whose longer side is the
\* maximum exactly, whose shorter side is within one pixel of
\* shorter * maximum / longer, and whose sides are both at least 1.
ResizedToMaxDimExactly ==
    (fn = "resize_image_to_max_dim" /\ returned) =>
        LET w == fn_args.size[1]
            h == fn_args.size[2]
            longer == Max(w, h)
            shorter == IF w >= h THEN h ELSE w
            m == parse_int(fn_args.max_dim)
            numeric == fn_args.max_dim # S_auto /\ fn_args.max_dim # <<>> /\ m.ok
            new_longer == Max(fn_ret.size[1], fn_ret.size[2])
            new_shorter == IF w >= h THEN fn_ret.size[2] ELSE fn_ret.size[1]
        IN  IF ~ numeric \/ longer <= m.value
            THEN fn_ret = SameImage(fn_args.size)
            ELSE /\ fn_ret.status = "resized"
                 /\ new_longer = m.value
                 /\ new_shorter * longer - shorter * m.value <= longer
                 /\ shorter * m.value - new_shorter * longer <= longer
                 /\ fn_ret.size[1] >= 1
                 /\ fn_ret.size[2] >= 1

\* a "WxH" string: two runs of digits around one "x", both positive numbers
IsSizeString(size) ==
    LET sides == Split(size, "x")
    IN  /\ Len(sides) = 2
        /\ \A k \in 1..2 :
             /\ sides[k] # <<>>
             /\ \A i \in 1..Len(sides[k]) : IsDigit(sides[k][i])
             /\ DigitsNat(sides[k]) > 0

\* C13: get_openai_model_and_size returns, for each of the ten aspect ratios
\* 1:1, 2:3, 3:2, 3:4, 4:3, 4:5, 5:4, 9:16, 16:9 and 21:9, a "WxH" string of
\* two positive integers (1024x1024 for 1:1, 1376x768 for 16:9, 1584x672 for
\* 21:9), and "1024x1024" for every other aspect ratio; every aspect ratio a
\* node offers is in the table.
SizeLookupCoversFixedSet ==
    (fn = "get_openai_model_and_size" /\ returned) =>
        LET a == fn_args.aspect_ratio
            fixed == {"1:1", "2:3", "3:2", "3:4", "4:3", "4:5", "5:4", "9:16", "16:9", "21:9"}
        IN  /\ a \in fixed => IsSizeString(fn_ret.size)
            /\ a = "1:1" => fn_ret.size = <<"1","0","2","4","x","1","0","2","4">>
            /\ a = "16:9" => fn_ret.size = <<"1","3","7","6","x","7","6","8">>
            /\ a = "21:9" => fn_ret.size = <<"1","5","8","4","x","6","7","2">>
            /\ a \notin fixed => fn_ret.size = <<"1","0","2","4","x","1","0","2","4">>
            /\ fn_args.node \in DOMAIN NODE_ASPECT_RATIOS =>
                   a \in fixed /\ a \in DOMAIN ASPECT_RATIO_TO_1K_SIZE

\* the batch node's widest ratio looked up
WideRatioLookedUp ==
    /\ fn = "get_openai_model_and_size"
    /\ returned
    /\ fn_args.node = "NanoBananaBatchProcessor"
    /\ fn_args.aspect_ratio = "21:9"
    /\ fn_ret.size = <<"1","5","8","4","x","6","7","2">>

\* C14: call_openai_format_api posts to {base}/v1/images/edits as multipart
\* with one file part per reference image, in the given order and numbered
\* image_0, image_1, ..., exactly when the reference list is non-empty; with a
\* missing or empty list it posts a JSON body to {base}/v1/images/generations;
\* {base} is the caller's network_url when given, the module default otherwise.
OpenAIEndpointByReferences ==
    (pc = "send" /\ route.variant = "openai") =>
        LET refs == req.reference_images_base64
            edit == refs # NoneStr /\ refs # <<>>
        IN  /\ route.base = IF req.network_url \in {NoneVal, ""}
                            THEN "https://api.o1key.com"
                            ELSE req.network_url
            /\ edit =>
                 /\ route.api = "/v1/images/edits"
                 /\ route.body = "multipart"
                 /\ Len(route.files) = Len(refs)
                 /\ \A i \in 1..Len(refs) :
                      /\ route.files[i].data = refs[i]
                      /\ Prefix(route.files[i].name, 7)
                             = <<"i","m","a","g","e","_", DIGITS[i]>>
                      /\ Len(route.files[i].name) > 7 => ~ IsDigit(route.files[i].name[8])
            /\ ~ edit =>
                 /\ route.api = "/v1/images/generations"
                 /\ route.body = "json"
                 /\ route.files = <<>>

\* two reference images sent over the accelerated line
TwoReferencesOnNetworkUrl ==
    /\ pc = "send"
    /\ route.variant = "openai"
    /\ req.network_url = ACCEL_URL
    /\ req.reference_images_base64 = <<"r2", "r1">>
    /\ route.api = "/v1/images/edits"
    /\ route.base = ACCEL_URL
    /\ Len(route.files) = 2
    /\ route.files[2].name = <<"i","m","a","g","e","_","1",".","p","n","g">>

\* C15: every generation request carries at most 9 reference images; each
\* batch item's list, the fixed reference images followed by the current
\* folder image, has at most 9 entries.
AtMostNineReferences ==
    \A k \in 1..Len(api_calls) : api_calls[k].refs <= 9

\* C16: within one batch session, after an item fails with a throttling
\* signal the interval applied before each remaining item is strictly larger
\* than the interval applied before the failed one, and the interval never
\* decreases during the session.
IntervalGrowsAfterThrottling ==
    \A k \in 1..Len(log) : \A j \in 1..Len(api_calls) :
        k < j =>
            /\ api_calls[j].interval >= api_calls[k].interval
            /\ log[k].overload => api_calls[j].interval > api_calls[k].interval

\* C17: in the batch loop every item whose generation request failed with
\* HTTP status 429, 502 or 503 takes the overload branch, on both protocol
\* paths, and no item that failed for another reason (401, 504, content
\* filtered, download failure) takes it.
ThrottlingRecognisedExactly ==
    (fn = "batch_item_failure" /\ returned) =>
        (fn_ret.overload <=> (fn_args.kind = "http" /\ fn_args.status \in {429, 502, 503}))

\* C18: for every response whose status is not 200, on all three request
\* paths, the call ends in an error and nothing is extracted: the body is not
\* parsed for image data, decode_base64_image is not called and no download
\* is issued, even when the body is a well-formed success payload.
NonOkStatusNeverExtracted ==
    (resp.kind = "http" /\ resp.status # 200) =>
        /\ pc = "done"
        /\ result.status = "error"
        /\ result.msg.kind \notin {"MalformedResponse", "DownloadFailure", "ContentFiltered"}
        /\ data = NoJson
        /\ decodes = 0
        /\ downloads = <<>>
        /\ gets = <<>>

\* an edit request answered 503 with the body of a successful generation
SuccessPayloadUnderErrorStatus ==
    /\ route.api = "/v1/images/edits"
    /\ resp.kind = "http"
    /\ resp.status = 503
    /\ resp.body.valid
    /\ resp.body.json.url = U1
    /\ pc = "done"
    /\ result.status = "error"
    /\ gets = <<>>

\* the non-empty inline data a part holds under either key
InlineDataOf(part) ==
    {v.data : v \in {x \in {part.inline_data, part.inlineData} :
                        x.type \in {"dict", "str"} /\ x.data \notin {"", "missing"}}}

\* C19: on a normally finished candidate, if any part holds non-empty inline
\* data (an object with a data field or a bare string, under inline_data or
\* inlineData) the result is decoded from the first such part and nothing is
\* downloaded, even when a text part with a URL comes earlier; only when no
\* part yields inline data are the text parts scanned in order, a markdown
\* URL before a bare URL, and the first URL found is downloaded; with neither,
\* the call fails with the malformed-response error.
InlineFirstThenUrls ==
    (fn = "extract_image_from_gemini_response" /\ returned) =>
        LET ps == fn_args.parts
            inl == {i \in 1..Len(ps) : InlineDataOf(ps[i]) # {}}
            url == {i \in 1..Len(ps) : ps[i].md_url # "" \/ ps[i].bare_url # ""}
        IN  IF inl # {}
            THEN LET i == CHOOSE k \in inl : \A j \in inl : k <= j
                 IN  fn_ret.status = "decode" /\ fn_ret.b64 \in InlineDataOf(ps[i])
            ELSE IF url # {}
            THEN LET u == CHOOSE k \in url : \A j \in url : k <= j
                 IN  /\ fn_ret.status = "download"
                     /\ fn_ret.url = IF ps[u].md_url # "" THEN ps[u].md_url ELSE ps[u].bare_url
            ELSE /\ fn_ret.status # "download"
                 /\ fn_ret.result.status = "error"
                 /\ fn_ret.result.msg.kind = "MalformedResponse"

\* C20: download_image_from_url with max_retries = k makes at most k GET
\* attempts; when all k attempts fail with retried errors it makes exactly k
\* attempts, sleeps before every attempt but the first, and then fails with
\* a download failure whose message carries the error of the last attempt;
\* it returns the image of the first successful attempt and makes no attempt
\* after it.
DownloadWithinMaxRetries ==
    (fn = "download_image_from_url") =>
        LET k == fn_args.max_retries
            n == Len(gets)
            retried == {"connect_timeout", "read_timeout", "connection_error", "other"}
            all_retried == \A i \in 1..n : gets[i].kind \in retried
        IN  /\ n <= k
            /\ sleeps = IF n > 0 THEN n - 1 ELSE 0
            /\ \A i \in 1..(n - 1) : gets[i].kind # "ok"
            /\ (n > 0 /\ gets[n].kind = "ok") =>
                   (pc = "done" /\ result = Image("download", fn_args.url))
            /\ (all_retried /\ n < k) => pc = "download"
            /\ (all_retried /\ n = k /\ k > 0) =>
                   /\ pc = "done"
                   /\ result.status = "error"
                   /\ result.msg.kind = "DownloadFailure"
                   /\ result.msg.friendly = last_error_of(gets[k]).tag
                   /\ result.msg.detail = last_error_of(gets[k]).detail

\* three attempts that failed in three ways: the refusal of the last one is
\* what the failure reports
ThirdFailureReported ==
    /\ fn = "download_image_from_url"
    /\ fn_args.max_retries = 3
    /\ Len(gets) = 3
    /\ gets[1].kind = "connect_timeout"
    /\ gets[2].kind = "other"
    /\ gets[3].kind = "connection_error"
    /\ sleeps = 2
    /\ pc = "done"
    /\ result.msg.tmpl = "DOWNLOAD_FAILED"
    /\ result.msg.detail = <<"refused">>

\* C21: for every non-200 response whose body contains "model_not_found" or
\* the no-channel marker, the failure is the model-unavailable one whatever
\* the status code: the marker is tested before the 401, 429 and 504
\* branches on all three request paths.
MarkerOverridesStatus ==
    (/\ resp.kind = "http"
     /\ resp.status # 200
     /\ \/ Contains(resp.body.text, <<"m","o","d","e","l","_","n","o","t","_","f","o","u","n","d">>)
        \/ Contains(resp.body.text, S_no_channel)) =>
        /\ pc = "done"
        /\ result.status = "error"
        /\ result.msg.kind = "ModelUnavailable"
        /\ result.msg.tmpl = "MODEL_UNAVAILABLE"

\* a 429 of the native endpoint whose body names the missing channel
RateLimitedWithNoChannel ==
    /\ route.variant = "native"
    /\ resp.kind = "http"
    /\ resp.status = 429
    /\ Contains(resp.body.text, S_no_channel)
    /\ pc = "done"
    /\ result.msg.kind = "ModelUnavailable"

\* C22: parse_api_error never surfaces an HTML body: when the body, after
\* leading whitespace, starts with a doctype or html tag in any letter case,
\* the message holds no character of it; of another body it holds at most a
\* prefix, of at most 100 characters for the gateway codes 500, 502, 503, 504
\* and 520-524 and of at most 200 characters for any other code.
HtmlBodyNeverSurfaced ==
    (fn = "parse_api_error" /\ returned) =>
        LET text == fn_args.error_text
            start == LStrip(text)
            doctype == <<{"<"}, {"!"}, {"d","D"}, {"o","O"}, {"c","C"}, {"t","T"},
                         {"y","Y"}, {"p","P"}, {"e","E"}>>
            tag == <<{"<"}, {"h","H"}, {"t","T"}, {"m","M"}, {"l","L"}>>
            html == \/ Len(start) >= 9 /\ \A i \in 1..9 : start[i] \in doctype[i]
                    \/ Len(start) >= 5 /\ \A i \in 1..5 : start[i] \in tag[i]
            limit == IF fn_args.status_code \in {500, 502, 503, 504, 520, 521, 522, 523, 524}
                     THEN 100 ELSE 200
            shown == fn_ret.message.detail
        IN  IF html
            THEN shown = <<>>
            ELSE /\ Len(shown) <= limit
                 /\ Len(shown) <= Len(text)
                 /\ shown = SubSeq(text, 1, Len(shown))

\* C23: on the native path the parts list of the request body starts with
\* the text prompt, followed by one inline-data part per reference image, in
\* the order of the reference list and with MIME type image/png, so its
\* length is 1 + the number of references; the generation configuration
\* carries the aspect ratio and, when a resolution is given, its upper-cased
\* tag.
NativePartsPromptThenReferences ==
    (pc = "send" /\ route.variant = "native") =>
        LET refs == IF req.reference_images_base64 = NoneStr
                    THEN <<>>
                    ELSE req.reference_images_base64
            z == req.image_size
        IN  /\ Len(route.parts) = 1 + Len(refs)
            /\ route.parts[1].kind = "text"
            /\ route.parts[1].data = req.prompt
            /\ \A i \in 1..Len(refs) :
                 /\ route.parts[i + 1].kind = "inline_data"
                 /\ route.parts[i + 1].mime_type = "image/png"
                 /\ route.parts[i + 1].data = refs[i]
            /\ route.config.aspectRatio = req.aspect_ratio
            /\ route.config.imageSize =
                 CASE z = <<"1","K">> -> <<"1","K">>
                   [] z \in {<<"2","K">>, <<"2","k">>} -> <<"2","K">>
                   [] z = <<"4","K">> -> <<"4","K">>
                   [] OTHER -> <<>>

\* two references and a lower-case resolution on the native path
NativeTwoReferencesLowerCaseTag ==
    /\ pc = "send"
    /\ route.variant = "native"
    /\ req.reference_images_base64 = <<"r2", "r1">>
    /\ req.image_size = <<"2","k">>
    /\ Len(route.parts) = 3
    /\ route.parts[2].data = "r2"
    /\ route.config.imageSize = <<"2","K">>

\* C24: batch items are processed strictly one after another: at most one
\* item's request or download is in flight at any time, and the request of
\* item k+1 is issued only after the whole pipeline of item k, up to the
\* recording of its success or failure, has finished.
BatchItemsOneAtATime ==
    /\ Len(api_calls) - Len(log) \in {0, 1}
    /\ (Len(api_calls) = Len(log) + 1) <=> (batch_pc = "item")
    /\ \A k \in 1..Len(log) : log[k].item = api_calls[k].item
    /\ processed_count = Len(api_calls)
    /\ success_count + failed_count = Len(log)

\* the second item's request is out, the first item is recorded
SecondItemAfterFirstRecorded ==
    /\ batch_pc = "item"
    /\ Len(api_calls) = 2
    /\ Len(log) = 1
    /\ log[1].item = api_calls[1].item
    /\ api_calls[2].item # api_calls[1].item

\* C25: on the OpenAI path the model name sent is the requested model's base
\* name (the identifier without a trailing "-url") with the resolution tier
\* as a suffix: "-url" for 1K or no tier, "-2k-url" for 2K, "-4k-url" for 4K,
\* so two different identifiers send two different names; the request carries
\* no separate resolution field.
OpenAIModelNameFromRequestedModel ==
    (pc = "send" /\ route.variant = "openai") =>
        LET m == req.model
            base == IF EndsWith(m, <<"-","u","r","l">>) THEN SubSeq(m, 1, Len(m) - 4) ELSE m
            z == req.image_size
        IN  /\ z \in {NoneStr, <<"1","K">>} => route.model = base \o <<"-","u","r","l">>
            /\ z = <<"2","K">> => route.model = base \o <<"-","2","k","-","u","r","l">>
            /\ z = <<"4","K">> => route.model = base \o <<"-","4","k","-","u","r","l">>
            /\ route.config.imageSize = <<>>

BatchImagesAreTheSuccesses ==
    batch_pc = "done" =>
        /\ Len(batch_output.images) = success_count
        /\ \A k \in 1..Len(log) :
             log[k].outcome = "failed" =>
                 \A p \in 1..Len(batch_output.images) : batch_output.images[p] # log[k].item

\* the counters of process_batch between two steps of the loops
BatchCountersInBounds ==
    LET total_generations == total_images * Len(prompts)
    IN  /\ success_count + failed_count <= processed_count
        /\ processed_count <= total_generations
        /\ processed_count - (success_count + failed_count) \in {0, 1}
        /\ (processed_count = success_count + failed_count + 1) <=> (batch_pc = "item")
        /\ (batch_pc = "done" /\ total_generations > 0) =>
               /\ success_count + failed_count = processed_count
               /\ processed_count = total_generations
        /\ \A k \in 1..Len(api_calls) :
               /\ api_calls[k].item = ItemAt(k)
               /\ \A j \in 1..(k - 1) :
                      \/ api_calls[j].item[1] < api_calls[k].item[1]
                      \/ /\ api_calls[j].item[1] = api_calls[k].item[1]
                         /\ api_calls[j].file < api_calls[k].file

\* one step never lowers a counter
BatchCountersGrow ==
    /\ processed_count' >= processed_count
    /\ success_count' >= success_count
    /\ failed_count' >= failed_count

\* C28: at every point of process_batch, success_count + failed_count <=
\* processed_count <= total_generations = total_images x total_prompts, each
\* counter only grows, processed_count exceeds success_count + failed_count
\* by at most one (the item in progress), and when the loop ends the three
\* are equal; the items are processed prompt by prompt and, within a prompt,
\* in the sorted order of the files.
BatchCountersInvariant ==
    [](BatchCountersInBounds) /\ [][BatchCountersGrow]_vars

\* the second item of the second prompt is in progress, in a folder that
\* glob listed in descending order
FourthItemInProgress ==
    /\ batch_pc = "item"
    /\ folder.listing = <<2, 1>>
    /\ processed_count = 4
    /\ success_count + failed_count = 3
    /\ success_count = 2
    /\ api_calls[3].file = 1
    /\ api_calls[4].file = 2
    /\ api_calls[4].item = Item(2, 2)

\* C29: the follow-up download of a request uses the same outbound proxy as
\* the generation request that produced the URL: for every request made
\* with a caller-supplied proxy, on the native path and on the OpenAI path,
\* download_image_from_url is called with that proxy.
DownloadThroughRequestProxy ==
    \A k \in 1..Len(downloads) :
        /\ Len(posts) = 1
        /\ downloads[k].proxy = posts[1].proxy
        /\ Strip(req.proxy) # <<>> => downloads[k].proxy = Strip(req.proxy)

\* C30: a request without credentials never reaches the network:
\* call_nano_banana_api and call_openai_format_api with an empty or missing
\* api_key fail with a ValueError before any HTTP call, and each node
\* (text-to-image, image-to-image, batch) whose api_config is missing or has
\* fewer than three elements fails before issuing any request, loading any
\* folder image or submitting any worker.
NoCredentialsNoNetwork ==
    /\ (pc # "idle" /\ req.api_key \in {"", "None"}) =>
           /\ posts = <<>>
           /\ gets = <<>>
           /\ downloads = <<>>
           /\ pc \in {"start", "done"}
           /\ pc = "done" => (result.status = "error" /\ result.msg.exc = "ValueError")
    /\ (fn = "call_openai_format_api" /\ returned) =>
           IF fn_args.api_key \in {"", "None"}
           THEN /\ fn_ret.status = "raised"
                /\ fn_ret.msg.exc = "ValueError"
                /\ fn_ret.request.api = ""
           ELSE /\ fn_ret.status = "posted"
                /\ fn_ret.request.bearer = fn_args.api_key
    /\ (node \in {"text_to_image", "image_to_image"} /\ api_config \in {"None", "short"}) =>
           /\ workers = <<>>
           /\ fan_pc \in {"start", "done"}
           /\ fan_pc = "done" => (fan_output.status = "raised"
                                   /\ fan_output.cause.exc = "ValueError")
    /\ (node = "batch_processor" /\ api_config \in {"None", "short"}) =>
           /\ ~ folder_loaded
           /\ api_calls = <<>>
           /\ batch_pc \in {"start", "done"}
           /\ batch_pc = "done" => (batch_output.status = "raised"
                                     /\ batch_output.cause.exc = "ValueError")

\* the batch node given a two-element api_config and a folder of two images
ShortConfigStopsBatch ==
    /\ node = "batch_processor"
    /\ api_config = "short"
    /\ folder.kind = "dir"
    /\ folder.files = 2
    /\ batch_pc = "done"
    /\ batch_output.status = "raised"
    /\ ~ folder_loaded
    /\ api_calls = <<>>

====
